---- MODULE Spec2Model ----
(***************************************************************************)
(* Skyblock Sniper: the item table, the item-search and set-search request *)
(* handlers, the legacy CSV search and the bulk importer, as a state       *)
(* machine.  Strings are TLA+ strings read character by character          *)
(* (Len, SubSeq, \o), so that normalisation, matching and collation are    *)
(* computed the way the handlers compute them.                             *)
(***************************************************************************)
EXTENDS Integers, Sequences, FiniteSets, TLC

(***************************************************************************)
(* Characters and strings (JavaScript String / SQLite TEXT primitives).    *)
(***************************************************************************)
NULL == "<null>"

LowerAlpha == "abcdefghijklmnopqrstuvwxyz"
UpperAlpha == "ABCDEFGHIJKLMNOPQRSTUVWXYZ"
DigitChars == "0123456789"
HexDigits == "0123456789ABCDEF"
OtherChars == " #_-*%,"

Ch(s, i) == SubSeq(s, i, i)

CharsOf(s) == {Ch(s, i) : i \in 1..Len(s)}

Alphabet ==
  CharsOf(LowerAlpha) \cup CharsOf(UpperAlpha) \cup CharsOf(DigitChars) \cup CharsOf(OtherChars)

IndexIn(c, s) ==
  IF \E i \in 1..Len(s) : Ch(s, i) = c
  THEN CHOOSE i \in 1..Len(s) : Ch(s, i) = c
  ELSE 0

\* one character of String.prototype.toUpperCase / SQL UPPER (ASCII)
UpperCh ==
  [c \in Alphabet |->
     IF IndexIn(c, LowerAlpha) > 0 THEN Ch(UpperAlpha, IndexIn(c, LowerAlpha)) ELSE c]

\* one character of String.prototype.toLowerCase / SQL LOWER (ASCII)
LowerCh ==
  [c \in Alphabet |->
     IF IndexIn(c, UpperAlpha) > 0 THEN Ch(LowerAlpha, IndexIn(c, UpperAlpha)) ELSE c]

RECURSIVE MapStr(_, _)
MapStr(f, s) == IF s = "" THEN "" ELSE f[Ch(s, 1)] \o MapStr(f, SubSeq(s, 2, Len(s)))

toUpperCase(s) == MapStr(UpperCh, s)
toLowerCase(s) == MapStr(LowerCh, s)

\* \w of a JavaScript regular expression
IsWordCh ==
  [c \in Alphabet |->
     \/ IndexIn(c, LowerAlpha) > 0
     \/ IndexIn(c, UpperAlpha) > 0
     \/ IndexIn(c, DigitChars) > 0
     \/ c = "_"]

\* \s of a JavaScript regular expression, and the characters trim() removes
IsSpaceCh == [c \in Alphabet |-> c = " "]

\* /^[0-9A-Fa-f]$/
IsHexCh == [c \in Alphabet |-> IndexIn(UpperCh[c], HexDigits) > 0]

\* parseInt(c, 16) of one hex digit
HexVal == [c \in Alphabet |-> IndexIn(UpperCh[c], HexDigits) - 1]

RECURSIVE TrimLeft(_)
TrimLeft(s) ==
  IF s # "" /\ IsSpaceCh[Ch(s, 1)] THEN TrimLeft(SubSeq(s, 2, Len(s))) ELSE s

RECURSIVE TrimRight(_)
TrimRight(s) ==
  IF s # "" /\ IsSpaceCh[Ch(s, Len(s))] THEN TrimRight(SubSeq(s, 1, Len(s) - 1)) ELSE s

\* String.prototype.trim
trim(s) == TrimRight(TrimLeft(s))

startsWith(s, p) == Len(s) >= Len(p) /\ SubSeq(s, 1, Len(p)) = p

\* String.prototype.includes
includes(s, p) == \E i \in 1..(Len(s) - Len(p) + 1) : SubSeq(s, i, i + Len(p) - 1) = p

\* /^[0-9A-Fa-f]{n}$/.test(s)
IsHexOfLen(s, n) == Len(s) = n /\ \A i \in 1..Len(s) : IsHexCh[Ch(s, i)]

\* s.replace(/#/g, "") and SQL REPLACE(s, '#', '')
RECURSIVE RemoveCh(_, _)
RemoveCh(s, c) ==
  IF s = "" THEN ""
  ELSE (IF Ch(s, 1) = c THEN "" ELSE Ch(s, 1)) \o RemoveCh(SubSeq(s, 2, Len(s)), c)

\* s.replace(/\s+/g, " ")
RECURSIVE CollapseSpaces(_)
CollapseSpaces(s) ==
  IF s = "" THEN ""
  ELSE IF IsSpaceCh[Ch(s, 1)]
       THEN " " \o CollapseSpaces(TrimLeft(s))
       ELSE Ch(s, 1) \o CollapseSpaces(SubSeq(s, 2, Len(s)))

\* s.replace(/\*/g, "%")
RECURSIVE StarsToPercent(_)
StarsToPercent(s) ==
  IF s = "" THEN ""
  ELSE (IF Ch(s, 1) = "*" THEN "%" ELSE Ch(s, 1)) \o StarsToPercent(SubSeq(s, 2, Len(s)))

(***************************************************************************)
(* SQLite operators used by the queries.                                   *)
(***************************************************************************)
\* x LIKE p: '%' any run, '_' any one character, ASCII letters compared
\* without case
RECURSIVE Like(_, _)
Like(s, p) ==
  IF p = "" THEN s = ""
  ELSE IF Ch(p, 1) = "%"
       THEN \/ Like(s, SubSeq(p, 2, Len(p)))
            \/ s # "" /\ Like(SubSeq(s, 2, Len(s)), p)
       ELSE /\ s # ""
            /\ Ch(p, 1) = "_" \/ UpperCh[Ch(s, 1)] = UpperCh[Ch(p, 1)]
            /\ Like(SubSeq(s, 2, Len(s)), SubSeq(p, 2, Len(p)))

\* the code points of the alphabet in ascending order (BINARY collation)
AsciiOrder == " #%*,-0123456789ABCDEFGHIJKLMNOPQRSTUVWXYZ_abcdefghijklmnopqrstuvwxyz"

CodePoint == [c \in Alphabet |-> IndexIn(c, AsciiOrder)]

\* a < b under ORDER BY of a TEXT column (memcmp)
RECURSIVE BinaryLess(_, _)
BinaryLess(a, b) ==
  IF b = "" THEN FALSE
  ELSE IF a = "" THEN TRUE
  ELSE IF Ch(a, 1) = Ch(b, 1) THEN BinaryLess(SubSeq(a, 2, Len(a)), SubSeq(b, 2, Len(b)))
  ELSE CodePoint[Ch(a, 1)] < CodePoint[Ch(b, 1)]

(***************************************************************************)
(* String.prototype.localeCompare: the collation of the runtime's default  *)
(* locale.  Primary strength orders white space, punctuation, symbols,     *)
(* digits, then letters without regard to case; strings equal at primary   *)
(* strength are ordered by case, lower case first.                         *)
(***************************************************************************)
PrimaryOrder == " _-,*#%0123456789abcdefghijklmnopqrstuvwxyz"

PrimaryKey == [c \in Alphabet |-> IndexIn(LowerCh[c], PrimaryOrder)]

RECURSIVE PrimaryCompare(_, _)
PrimaryCompare(a, b) ==
  IF a = "" /\ b = "" THEN 0
  ELSE IF a = "" THEN -1
  ELSE IF b = "" THEN 1
  ELSE IF PrimaryKey[Ch(a, 1)] = PrimaryKey[Ch(b, 1)]
       THEN PrimaryCompare(SubSeq(a, 2, Len(a)), SubSeq(b, 2, Len(b)))
  ELSE IF PrimaryKey[Ch(a, 1)] < PrimaryKey[Ch(b, 1)] THEN -1 ELSE 1

RECURSIVE CaseCompare(_, _)
CaseCompare(a, b) ==
  IF a = "" \/ b = "" THEN 0
  ELSE IF Ch(a, 1) = Ch(b, 1) THEN CaseCompare(SubSeq(a, 2, Len(a)), SubSeq(b, 2, Len(b)))
  ELSE IF LowerCh[Ch(a, 1)] = Ch(a, 1) THEN -1 ELSE 1

CollateFrom(primary, a, b) == IF primary # 0 THEN primary ELSE CaseCompare(a, b)

localeCompare(a, b) == IF a = b THEN 0 ELSE CollateFrom(PrimaryCompare(a, b), a, b)

\* Array.prototype.slice(from, to) with 0-based bounds
slice(seq, from, to) ==
  IF from >= Len(seq) THEN <<>>
  ELSE SubSeq(seq, from + 1, IF to < Len(seq) THEN to ELSE Len(seq))

Range(seq) == {seq[i] : i \in 1..Len(seq)}

\* Math.ceil(a / b) for a >= 0, b > 0
Ceil(a, b) == (a + b - 1) \div b

Max(a, b) == IF a >= b THEN a ELSE b
Min(a, b) == IF a <= b THEN a ELSE b

(***************************************************************************)
(* Colour model.                                                           *)
(***************************************************************************)
\* s.split("").map(c => c + c).join("")
RECURSIVE DoubleEach(_)
DoubleEach(s) ==
  IF s = "" THEN "" ELSE Ch(s, 1) \o Ch(s, 1) \o DoubleEach(SubSeq(s, 2, Len(s)))

\* normalizeHex of the item-search and set-search routes: "#RRGGBB" in upper
\* case, or NULL
normalizeHex(input) ==
  IF input = NULL \/ input = "" THEN NULL
  ELSE LET t == trim(input)
           s == IF startsWith(t, "#") THEN SubSeq(t, 2, Len(t)) ELSE t
           w == IF IsHexOfLen(s, 3) THEN DoubleEach(s) ELSE s
       IN  IF ~IsHexOfLen(w, 6) THEN NULL ELSE "#" \o toUpperCase(w)

\* h.trim().replace(/^#/, "")
TrimThenStrip(h) ==
  IF startsWith(trim(h), "#") THEN SubSeq(trim(h), 2, Len(trim(h))) ELSE trim(h)

\* normalizeHex of the second set-search handler of the sets route file, which
\* maps stored sets to the output: "#rrggbb" in lower case, any other text
\* kept behind the marker, NULL for no text
normalizeHexPermissive(h) ==
  IF h = NULL \/ h = "" THEN NULL
  ELSE IF TrimThenStrip(h) = "" THEN NULL
  ELSE IF Len(TrimThenStrip(h)) = 3 THEN "#" \o toLowerCase(DoubleEach(TrimThenStrip(h)))
  ELSE IF Len(TrimThenStrip(h)) = 6 THEN "#" \o toLowerCase(TrimThenStrip(h))
  ELSE "#" \o toLowerCase(TrimThenStrip(h))

NIBBLE_WEIGHTS == <<8, 1, 8, 1, 8, 1>>

Abs(x) == IF x < 0 THEN -x ELSE x

RECURSIVE SumTo(_, _)
SumTo(f, n) == IF n = 0 THEN 0 ELSE f[n] + SumTo(f, n - 1)

\* a distance that weighs the high digit of a channel 16 and the low digit 1
channelDistance(aHex, bHex) ==
  SumTo([i \in 1..6 |->
           (IF i % 2 = 1 THEN 16 ELSE 1) *
           Abs(HexVal[Ch(toUpperCase(aHex), i + 1)] - HexVal[Ch(toUpperCase(bHex), i + 1)])], 6)

\* nibbleDistance(aHex, bHex) of two "#RRGGBB" strings
nibbleDistance(aHex, bHex) ==
  LET a == toUpperCase(SubSeq(aHex, 2, Len(aHex)))
      b == toUpperCase(SubSeq(bHex, 2, Len(bHex)))
  IN  SumTo([i \in 1..6 |-> NIBBLE_WEIGHTS[i] * Abs(HexVal[Ch(a, i)] - HexVal[Ch(b, i)])], 6)

(***************************************************************************)
(* Piece classifier.                                                       *)
(***************************************************************************)
PieceKinds == <<"helmet", "chestplate", "leggings", "boots">>

\* /lit/i
TestSub(name, lit) == includes(toLowerCase(name), lit)

\* /\blit\b/i for a literal that starts and ends with a word character
TestWord(name, lit) ==
  LET n == toLowerCase(name)
  IN  \E i \in 1..(Len(n) - Len(lit) + 1) :
        /\ SubSeq(n, i, i + Len(lit) - 1) = lit
        /\ i = 1 \/ ~IsWordCh[Ch(n, i - 1)]
        /\ i + Len(lit) - 1 = Len(n) \/ ~IsWordCh[Ch(n, i + Len(lit))]

\* the table of regular expressions, kind by kind, in the order of the keys
PIECE_MATCHERS(name) ==
  [helmet     |-> <<TestSub(name, "helmet"), TestWord(name, "helm"), TestWord(name, "cap")>>,
   chestplate |-> <<TestSub(name, "chest"), TestSub(name, "chestplate"), TestWord(name, "chest")>>,
   leggings   |-> <<TestSub(name, "legging"), TestSub(name, "pants"),
                    TestWord(name, "leg") \/ TestWord(name, "legs")>>,
   boots      |-> <<TestSub(name, "boot"), TestSub(name, "shoe")>>]

RECURSIVE FirstKind(_, _)
FirstKind(m, k) ==
  IF k > Len(PieceKinds) THEN NULL
  ELSE IF \E j \in 1..Len(m[PieceKinds[k]]) : m[PieceKinds[k]][j] THEN PieceKinds[k]
  ELSE FirstKind(m, k + 1)

\* a classifier that lets a later kind override an earlier one
RECURSIVE LastKind(_, _)
LastKind(m, k) ==
  IF k = 0 THEN NULL
  ELSE IF \E j \in 1..Len(m[PieceKinds[k]]) : m[PieceKinds[k]][j] THEN PieceKinds[k]
  ELSE LastKind(m, k - 1)

detectPieceLast(name) == LastKind(PIECE_MATCHERS(name), Len(PieceKinds))

detectPiece(name) == FirstKind(PIECE_MATCHERS(name), 1)

\* "dragon" in the query: a 3-piece set with no helmet required
requiresHelmet(setQuery) == ~TestSub(setQuery, "dragon")

\* s.toLowerCase().replace(/\b\w/g, c => c.toUpperCase())
RECURSIVE CapitalizeFrom(_, _)
CapitalizeFrom(s, i) ==
  IF i > Len(s) THEN ""
  ELSE (IF IsWordCh[Ch(s, i)] /\ (i = 1 \/ ~IsWordCh[Ch(s, i - 1)])
        THEN UpperCh[Ch(s, i)] ELSE Ch(s, i)) \o CapitalizeFrom(s, i + 1)

titleCase(s) == IF s = NULL \/ s = "" THEN "" ELSE CapitalizeFrom(toLowerCase(s), 1)

(***************************************************************************)
(* Bounds and the inputs of the model.                                     *)
(***************************************************************************)
\* the largest item table explored
MaxRows == 12

\* the extra column: absent (SQL NULL), text that JSON.parse rejects, or a
\* JSON object with owner_playerUuid and owner.playerUuid, each a string or
\* NULL; OwnedByNumber is an object whose owner_playerUuid is a JSON number
\* other than 0, written here by its digits
NoExtra == [kind |-> "null", owner_playerUuid |-> NULL, owner_nested |-> NULL]
Malformed == [kind |-> "malformed", owner_playerUuid |-> NULL, owner_nested |-> NULL]
Owned(o) == [kind |-> "object", owner_playerUuid |-> o, owner_nested |-> NULL]
OwnedNested(o) == [kind |-> "object", owner_playerUuid |-> NULL, owner_nested |-> o]
NoOwner == [kind |-> "object", owner_playerUuid |-> NULL, owner_nested |-> NULL]
OwnedByNumber(n) ==
  [kind |-> "object, owner a number", owner_playerUuid |-> n, owner_nested |-> NULL]

Item(u, n, c, r, e) == [uuid |-> u, name |-> n, color |-> c, rarity |-> r, extra |-> e]

\* the data files the importer is run on, one list of rows per file
DataFiles ==
  << \* 1: a three-piece dragon set of owner a1 in the colour #AAAAAA, and
     \*    rows that cannot join a set
     << Item("i01", "Wise Dragon Chestplate", "#AAAAAA", "LEGENDARY", Owned("a1")),
        Item("i02", "Wise Dragon Leggings", "aaaaaa", NULL, Owned("a1")),
        Item("i03", "Wise Dragon Boots", "#aAaAaA", NULL, Owned("a1")),
        Item("i04", "Wise Dragon Boots", "#AAAAAA", NULL, NoExtra),
        Item("i05", "Wise Dragon Trinket", "#AAAAAA", NULL, Owned("a1")),
        Item("i06", "Wise Dragon Chestplate", "##AAAAAA", NULL, Malformed) >>,
     \* 2: helmets: of a1 in the colour, of b2 two steps away, of c3 uncoloured
     << Item("i07", "Wise Dragon Helmet", "#AAAAAA", NULL, Owned("a1")),
        Item("i08", "Wise Dragon Helmet", "#AAAAAC", NULL, Owned("b2")),
        Item("i09", "Wise Dragon Helmet", NULL, NULL, Owned("c3")) >>,
     \* 3: a three-piece set of owner b2, the owner written in both cases
     << Item("i10", "Wise Dragon Chestplate", "#AAAAAA", NULL, Owned("b2")),
        Item("i11", "wise dragon leggings", "#AAAAAA", "EPIC", Owned("B2")),
        Item("i12", "Wise Dragon Boots", "#AAAAAA", NULL, OwnedNested("b2")) >>,
     \* 4: a three-piece set of owner c3, one piece in 3-digit form and one a
     \*    step away
     << Item("i13", "Wise Dragon Chestplate", "#aaa", NULL, Owned("c3")),
        Item("i14", "Wise Dragon Leggings", "#AAAAAB", NULL, Owned("c3")),
        Item("i15", "Wise Dragon Boots", "#AAAAAA", NULL, Owned("c3")) >>,
     \* 5: a second pair of boots of a1, one step away, sorting first by name
     << Item("i16", "Old Wise Dragon Boots", "#AAAAAB", NULL, Owned("a1")) >>,
     \* 6: a re-import of i03 three steps away, and a piece of another set
     << Item("i03", "Wise Dragon Boots", "#AAAAAD", NULL, Owned("a1")),
        Item("i17", "Farm Suit Pants", "#AAAAAB", NULL, NoOwner) >>
  >>

AllFileRows == UNION {Range(DataFiles[f]) : f \in 1..Len(DataFiles)}

\* the largest number of owners in a bulk data file
MaxOwners == 52

TwoDigits(i) == Ch("0123456789", (i \div 10) + 1) \o Ch("0123456789", (i % 10) + 1)

\* the owner i of a bulk data file, and the account name of that owner
BulkOwner(i) == "u" \o TwoDigits(i)
BulkName(i) == "n" \o TwoDigits(i)

\* a bulk data file: a three-piece dragon set in #AAAAAA for each of n
\* owners, the rows in the order of their names
BulkFile(n) ==
  [i \in 1..n |-> Item("x" \o TwoDigits(i), "Wise Dragon Boots", "#AAAAAA", NULL, Owned(BulkOwner(i)))]
    \o [i \in 1..n |-> Item("y" \o TwoDigits(i), "Wise Dragon Chestplate", "#AAAAAA", NULL,
                             Owned(BulkOwner(i)))]
    \o [i \in 1..n |-> Item("z" \o TwoDigits(i), "Wise Dragon Leggings", "#AAAAAA", NULL,
                             Owned(BulkOwner(i)))]

\* the external profile service: the username of each account, NULL when
\* the account has none
Directory ==
  [u \in {"a1", "b2", "c3"} \cup {BulkOwner(i) : i \in 1..MaxOwners} |->
     CASE u = "a1" -> "Zed" [] u = "b2" -> "amy" [] u = "c3" -> NULL
       [] OTHER -> BulkName(CHOOSE i \in 1..MaxOwners : BulkOwner(i) = u)]

\* a row of the legacy dataset
OldRow(id, itemId, pieceType, colorHex, colour, rarity, reforge, playerUuid) ==
  [_id |-> id, id |-> "", itemId |-> itemId, piece_type |-> pieceType, color_hex |-> colorHex,
   colour |-> colour, rarity |-> rarity, reforge |-> reforge, playerUuid |-> playerUuid,
   profileUuid |-> ""]

NoDataset == [found |-> FALSE, rows |-> <<>>]

\* the legacy datasets a deployment may carry: none, an empty file, rows
\* without owner, and rows of which one has an owner
Datasets ==
  << NoDataset,
     [found |-> TRUE, rows |-> <<>>],
     [found |-> TRUE,
      rows |-> << OldRow("o1", "OLD_DRAGON_BOOTS", "", "#aaaaaa", "", "LEGENDARY", "", ""),
                  OldRow("o2", "OLD_DRAGON_HELMET", "", "AAAAAB", "", "", "wise", ""),
                  OldRow("o3", "", "old_dragon_boots", "", "#aabbaa", "EPIC", "", ""),
                  OldRow("o4", "", "", "red", "", "", "", "") >>],
     [found |-> TRUE,
      rows |-> << OldRow("o1", "OLD_DRAGON_BOOTS", "", "#aaaaaa", "", "LEGENDARY", "", ""),
                  OldRow("o5", "OLD_DRAGON_LEGGINGS", "", "#aaaaaa", "", "", "", "a1") >>] >>

(***************************************************************************)
(* State.                                                                  *)
(***************************************************************************)
VARIABLES
  items,      \* the items table: a sequence of rows, row i has id i
  imported,   \* the index of the last data file the importer was run on
  canWrite,   \* CAN_WRITE: FALSE in the read-only production deployment
  cache,      \* the username_cache table: flat uuid -> [username, fetched_at]
  now,        \* the clock, in milliseconds
  csv,        \* the index in Datasets of the legacy dataset deployed
  service,    \* what the profile service answers while the request is served
  req,        \* the request being served
  resp,       \* its response
  io,         \* what the request did: the external lookups it issued, in
              \* order of issue, and the number of SELECTs on the items table
  calls,      \* the resolveUsername calls of a request awaiting Promise.all
  view,       \* the React state of the pages open in the browser
  storage     \* the browser's localStorage, shared by the open pages

vars == <<items, imported, canWrite, cache, now, csv, service, req, resp, io,
          calls, view, storage>>

NoReq == [endpoint |-> "none"]
\* no page is open; nothing is stored under "gibbo-favs" or "gibbo-fav-items"
NoView == [route |-> "none"]
NoStorage == [favs |-> <<>>, favItems |-> <<>>]
NoResp == [ok |-> FALSE, status |-> 0]
NoIo == [lookups |-> <<>>, selects |-> 0]

\* no call is awaited: owners are the owners resolved, nameMap the Map the
\* calls fill, settled the lookups completed in order of completion, before
\* the cache rows when the calls were made
NoCalls == [owners |-> <<>>, nameMap |-> <<>>, settled |-> <<>>, before |-> <<>>]

DAY_MS == 24 * 60 * 60 * 1000

\* a cache row that was never written: SELECT returns undefined
NotCached == [username |-> NULL, fetched_at |-> 0]

(***************************************************************************)
(* The importer (scripts/import.js): one transaction per data file,        *)
(* INSERT ... ON CONFLICT(uuid) DO UPDATE for each of its rows.            *)
(***************************************************************************)
Upsert(tbl, row) ==
  IF \E i \in 1..Len(tbl) : tbl[i].uuid = row.uuid
  THEN [i \in 1..Len(tbl) |->
          IF tbl[i].uuid = row.uuid
          THEN [id |-> tbl[i].id, uuid |-> row.uuid, name |-> row.name, color |-> row.color,
                rarity |-> row.rarity, extra |-> row.extra]
          ELSE tbl[i]]
  ELSE Append(tbl, [id |-> Len(tbl) + 1, uuid |-> row.uuid, name |-> row.name,
                    color |-> row.color, rarity |-> row.rarity, extra |-> row.extra])

\* the rows of the file in order, the file split in halves and the table
\* so far measured before the next half, to keep the evaluation shallow
RECURSIVE UpsertAll(_, _)
UpsertAll(tbl, rows) ==
  IF rows = <<>> \/ Len(tbl) < 0 THEN tbl
  ELSE IF Len(rows) = 1 THEN Upsert(tbl, rows[1])
  ELSE UpsertAll(UpsertAll(tbl, SubSeq(rows, 1, Len(rows) \div 2)),
                 SubSeq(rows, Len(rows) \div 2 + 1, Len(rows)))

(***************************************************************************)
(* Request parameters.  A numeric parameter is absent, or text that        *)
(* parseInt reads as the integer val.                                      *)
(***************************************************************************)
Absent == [kind |-> "absent", val |-> 0]
Num(n) == [kind |-> "int", val |-> n]

\* parseInt(searchParams.get(p) || String(dflt), 10) || dflt
ParseIntOr(raw, dflt) ==
  IF raw.kind = "absent" THEN dflt
  ELSE IF raw.val = 0 THEN dflt
  ELSE raw.val

(***************************************************************************)
(* Owner of a row: JSON.parse(r.extra) inside try/catch, then              *)
(* extra?.owner_playerUuid || extra?.owner?.playerUuid || null.            *)
(***************************************************************************)
Truthy(str) == str # NULL /\ str # ""

OwnerOf(extra) ==
  IF extra.kind \notin {"object", "object, owner a number"} THEN NULL
  ELSE IF Truthy(extra.owner_playerUuid) THEN extra.owner_playerUuid
  ELSE IF Truthy(extra.owner_nested) THEN extra.owner_nested
  ELSE NULL

\* an owner that is truthy and has no string methods: ownerUuid.toLowerCase()
\* and ownerUuid.replace(...) throw a TypeError on it
OwnerNotText(extra) == extra.kind = "object, owner a number" /\ OwnerOf(extra) # NULL

\* uuidMaybeDashed.replace(/-/g, "").toLowerCase()
FlatUuid(u) == toLowerCase(RemoveCh(u, "-"))

(***************************************************************************)
(* resolveUsername.  fetched[u] is what happens to the lookup of the flat  *)
(* uuid u in this request: status "ok" with a name or NULL, "error" (a     *)
(* non-success response), "throw" (a network error), "read error" and      *)
(* "write error" (the cache statement throws; without CAN_WRITE the cache  *)
(* is not touched and the lookup succeeds).  The result is the username,   *)
(* the cache rows written and whether the profile service was called.      *)
(***************************************************************************)
Resolved(name, writes, lookup) == [name |-> name, writes |-> writes, lookup |-> lookup]

\* j.username || j.name || null
FetchedName(r) == IF Truthy(r.name) THEN r.name ELSE NULL

\* the branch without the cache
ResolveDirect(r) ==
  IF r.status \in {"error", "throw"} THEN Resolved(NULL, {}, TRUE)
  ELSE Resolved(FetchedName(r), {}, TRUE)

\* a lookup that caches its failure as a null username
ResolveCachedNegative(uuid, cached, t, r) ==
  IF r.status = "read error" THEN Resolved(NULL, {}, FALSE)
  ELSE IF cached.fetched_at # 0 /\ t - cached.fetched_at < DAY_MS
  THEN Resolved(cached.username, {}, FALSE)
  ELSE IF r.status = "ok"
  THEN Resolved(FetchedName(r), {[uuid |-> uuid, username |-> FetchedName(r), fetched_at |-> t]},
                TRUE)
  ELSE Resolved(NULL, {[uuid |-> uuid, username |-> NULL, fetched_at |-> t]}, TRUE)

\* the branch with the cache, cached the row SELECTed for uuid
ResolveCached(uuid, cached, t, r) ==
  IF r.status = "read error" THEN Resolved(NULL, {}, FALSE)
  ELSE IF cached.fetched_at # 0 /\ t - cached.fetched_at < DAY_MS
  THEN Resolved(cached.username, {}, FALSE)
  ELSE IF r.status = "ok"
  THEN Resolved(FetchedName(r),
                {[uuid |-> uuid, username |-> FetchedName(r), fetched_at |-> t]}, TRUE)
  ELSE Resolved(NULL, {}, TRUE)

CachedRow(ch, uuid) == IF uuid \in DOMAIN ch THEN ch[uuid] ELSE NotCached

resolveUsername(uuidMaybeDashed, cw, ch, t, fetched) ==
  IF ~Truthy(uuidMaybeDashed) THEN Resolved(NULL, {}, FALSE)
  ELSE IF cw
  THEN ResolveCached(FlatUuid(uuidMaybeDashed), CachedRow(ch, FlatUuid(uuidMaybeDashed)), t,
                     fetched[FlatUuid(uuidMaybeDashed)])
  ELSE ResolveDirect(fetched[FlatUuid(uuidMaybeDashed)])

\* at most this many owners are resolved per request
LookupCap == 50

\* Array.from(new Set(seq)): the distinct elements in order of first occurrence
AppendNew(d, more) == d \o SelectSeq(more, LAMBDA x : x \notin Range(d))

RECURSIVE Distinct(_)
Distinct(seq) ==
  IF Len(seq) <= 1 THEN seq
  ELSE AppendNew(Distinct(SubSeq(seq, 1, Len(seq) \div 2)),
                 Distinct(SubSeq(seq, Len(seq) \div 2 + 1, Len(seq))))

\* await Promise.all(owners.map(async u => nameMap.set(u, await resolveUsername(u)))):
\* every call reads the cache before any call writes it
NameMap(owners, cw, ch, t, fetched) ==
  [u \in Range(owners) |-> resolveUsername(u, cw, ch, t, fetched).name]

\* the cache rows after the writes
CacheWith(ch, writes) ==
  [k \in DOMAIN ch \cup {w.uuid : w \in writes} |->
     IF \E w \in writes : w.uuid = k
     THEN [username |-> (CHOOSE w \in writes : w.uuid = k).username,
           fetched_at |-> (CHOOSE w \in writes : w.uuid = k).fetched_at]
     ELSE ch[k]]

CacheAfter(owners, cw, ch, t, fetched) ==
  CacheWith(ch, UNION {resolveUsername(u, cw, ch, t, fetched).writes : u \in Range(owners)})

\* the owners for which the profile service is called, in order of issue
Lookups(owners, cw, ch, t, fetched) ==
  SelectSeq(owners, LAMBDA u : resolveUsername(u, cw, ch, t, fetched).lookup)

\* what a request did
Io(lookups, selects) == [lookups |-> lookups, selects |-> selects]

(***************************************************************************)
(* Requests explored.                                                      *)
(***************************************************************************)
SetQueries == {"wise dragon", "Wise"}
SetColors == {"aaa", "#AAAAAB"}
SetTolerances == {0, 1, 2}
Limits == {1, 2}
Pages == {1, 2, 3}

OldQueries == {"", "boots", "wise"}
OldColors == {"", "#AAAAAA", "aaa"}
OldTolerances == {0, 1, 17}

ItemQueries == {"", "w*boots"}
ItemColors == {"", "aaa", "zzz"}
ItemTolerances == {0, 1, 2}
ItemUuids == {"", "i03"}
ItemUuidLists == {"", "i03, i16,i04,"}
ItemPieces == {"all", "Boots"}

\* the LIKE patterns of the set search: `%${qRaw.replace(/\s+/g, " ").trim()}%`
SetLike(qRaw) == "%" \o trim(CollapseSpaces(qRaw)) \o "%"

(***************************************************************************)
(* The string functions above, tabulated once over the names and colours   *)
(* of the data files and the patterns of the requests.                     *)
(***************************************************************************)
NameSet == {r.name : r \in AllFileRows}
ColorSet == {r.color : r \in AllFileRows}
OwnerSet == {OwnerOf(r.extra) : r \in AllFileRows} \ {NULL}
SetPatterns ==
  {toLowerCase(SetLike(trim(q))) : q \in SetQueries}
    \cup {"%helmet%", "%helm%", "%chest%", "%legging%", "%pants%", "%boot%", "%shoe%"}
ItemPatterns == {"%" \o StarsToPercent(trim(q)) \o "%" : q \in ItemQueries}
HexSet ==
  ({normalizeHex(c) : c \in ColorSet} \cup {normalizeHex(c) : c \in SetColors \cup ItemColors})
    \ {NULL}

PieceTable == [n \in NameSet |-> detectPiece(n)]
HexTable == [c \in ColorSet |-> normalizeHex(c)]
DistTable == [a \in HexSet, b \in HexSet |-> nibbleDistance(a, b)]
NameLessTable == [a \in NameSet, b \in NameSet |-> BinaryLess(a, b)]
NameCompareTable == [a \in NameSet, b \in NameSet |-> localeCompare(a, b)]
LikeTable == [n \in NameSet, pat \in SetPatterns |-> Like(toLowerCase(n), pat)]
RawLikeTable == [n \in NameSet, pat \in ItemPatterns |-> Like(n, pat)]
SqlColorTable == [c \in ColorSet |-> toUpperCase(RemoveCh(IF c = NULL THEN "" ELSE c, "#"))]
LowerTable == [o \in OwnerSet |-> toLowerCase(o)]

PieceOfName(n) == IF n \in NameSet THEN PieceTable[n] ELSE detectPiece(n)
HexOfColor(c) == IF c \in ColorSet THEN HexTable[c] ELSE normalizeHex(c)
DistOf(a, b) ==
  IF a \in HexSet /\ b \in HexSet THEN DistTable[a, b] ELSE nibbleDistance(a, b)
NameLess(a, b) ==
  IF a \in NameSet /\ b \in NameSet THEN NameLessTable[a, b] ELSE BinaryLess(a, b)
NameCompare(a, b) ==
  IF a \in NameSet /\ b \in NameSet THEN NameCompareTable[a, b] ELSE localeCompare(a, b)
\* LOWER(name) LIKE pat, for a pattern already in lower case
LowerLike(n, pat) ==
  IF n \in NameSet /\ pat \in SetPatterns THEN LikeTable[n, pat] ELSE Like(toLowerCase(n), pat)
\* name LIKE pat
RawLike(n, pat) ==
  IF n \in NameSet /\ pat \in ItemPatterns THEN RawLikeTable[n, pat] ELSE Like(n, pat)
\* UPPER(REPLACE(COALESCE(color,''), '#',''))
SqlColorKey(c) ==
  IF c \in ColorSet THEN SqlColorTable[c]
  ELSE toUpperCase(RemoveCh(IF c = NULL THEN "" ELSE c, "#"))
LowerOwner(o) == IF o \in OwnerSet THEN LowerTable[o] ELSE toLowerCase(o)

(***************************************************************************)
(* Sorting.  ORDER BY name of SQLite (rows of equal name in rowid order)   *)
(* and the stable Array.prototype.sort, as a merge sort that keeps the     *)
(* input order of elements the comparator does not separate.              *)
(* Before(kind, x, y) is "compare(x, y) < 0" of the comparator kind.       *)
(***************************************************************************)
OwnerSortKey(g) ==
  IF Truthy(g.ownerUsername) THEN g.ownerUsername
  ELSE IF Truthy(g.ownerUuid) THEN g.ownerUuid ELSE ""

\* ORDER BY name (the BINARY collation)
OrderByName(x, y) == NameLess(x.name, y.name)

\* (a, b) => String(a.name).localeCompare(String(b.name))
CompareNames(x, y) == NameCompare(x.name, y.name) < 0

\* (a, b) => (a.dist - b.dist) || String(a.row.name).localeCompare(String(b.row.name))
CompareNear(x, y) ==
  IF x.dist # y.dist THEN x.dist < y.dist ELSE NameCompare(x.row.name, y.row.name) < 0

\* a comparator that orders the owner labels by code unit, as `<` does
CompareSetsByCodeUnit(x, y) ==
  IF x.isExact # y.isExact THEN x.isExact
  ELSE IF x.sumDist * y.nDist # y.sumDist * x.nDist
       THEN x.sumDist * y.nDist < y.sumDist * x.nDist
  ELSE BinaryLess(OwnerSortKey(x), OwnerSortKey(y))

\* the comparator of completed.sort(...); avgDist is compared as the
\* fraction sumDist / nDist
CompareSets(x, y) ==
  IF x.isExact # y.isExact THEN x.isExact
  ELSE IF x.sumDist * y.nDist # y.sumDist * x.nDist
       THEN x.sumDist * y.nDist < y.sumDist * x.nDist
  ELSE localeCompare(OwnerSortKey(x), OwnerSortKey(y)) < 0

\* the comparator of the revision without tolerance: label, owner, rarity
CompareSetsByLabel(x, y) ==
  IF localeCompare(x.setLabel, y.setLabel) # 0
  THEN localeCompare(x.setLabel, y.setLabel) < 0
  ELSE IF localeCompare(OwnerSortKey(x), OwnerSortKey(y)) # 0
       THEN localeCompare(OwnerSortKey(x), OwnerSortKey(y)) < 0
  ELSE localeCompare(IF Truthy(x.rarity) THEN x.rarity ELSE "",
                     IF Truthy(y.rarity) THEN y.rarity ELSE "") < 0

Before(kind, x, y) ==
  CASE kind = "ORDER BY name" -> OrderByName(x, y)
    [] kind = "name" -> CompareNames(x, y)
    [] kind = "near" -> CompareNear(x, y)
    [] kind = "sets" -> CompareSets(x, y)
    [] kind = "sets by label" -> CompareSetsByLabel(x, y)

\* the stable merge of the sorted lists a and b: pa[i] and pb[j] are the
\* places of a[i] and b[j] in the result; b[j] goes before a[i] only when
\* the comparator puts it before.  SubSeq makes the lists tuples, computed
\* once
Place(a, b, pa, pb) ==
  SubSeq([k \in 1..(Len(a) + Len(b)) |->
            IF \E i \in 1..Len(a) : pa[i] = k
            THEN a[CHOOSE i \in 1..Len(a) : pa[i] = k]
            ELSE b[CHOOSE j \in 1..Len(b) : pb[j] = k]], 1, Len(a) + Len(b))

\* the number of leading elements of the sorted list b that the comparator
\* puts before x, found by bisection of lo..hi
RECURSIVE CountBefore(_, _, _, _, _)
CountBefore(b, x, kind, lo, hi) ==
  IF lo > hi THEN lo - 1
  ELSE IF Before(kind, b[(lo + hi) \div 2], x)
       THEN CountBefore(b, x, kind, (lo + hi) \div 2 + 1, hi)
       ELSE CountBefore(b, x, kind, lo, (lo + hi) \div 2 - 1)

\* the number of leading elements of the sorted list a that y is not put
\* before
RECURSIVE CountNotAfter(_, _, _, _, _)
CountNotAfter(a, y, kind, lo, hi) ==
  IF lo > hi THEN lo - 1
  ELSE IF ~Before(kind, y, a[(lo + hi) \div 2])
       THEN CountNotAfter(a, y, kind, (lo + hi) \div 2 + 1, hi)
       ELSE CountNotAfter(a, y, kind, lo, (lo + hi) \div 2 - 1)

Merge(a, b, kind) ==
  Place(a, b,
        SubSeq([i \in 1..Len(a) |-> i + CountBefore(b, a[i], kind, 1, Len(b))], 1, Len(a)),
        SubSeq([j \in 1..Len(b) |-> j + CountNotAfter(a, b[j], kind, 1, Len(a))], 1, Len(b)))

RECURSIVE StableSort(_, _)
StableSort(seq, kind) ==
  IF Len(seq) <= 1 THEN seq
  ELSE Merge(StableSort(SubSeq(seq, 1, Len(seq) \div 2), kind),
             StableSort(SubSeq(seq, Len(seq) \div 2 + 1, Len(seq)), kind), kind)

\* SELECT ... FROM items WHERE keep[id] ORDER BY name
SelectOrderByName(tbl, keep) ==
  StableSort(SelectSeq(tbl, LAMBDA r : keep[r.id]), "ORDER BY name")

(***************************************************************************)
(* Set search (app/api/sets/route.ts, GET).                                *)
(***************************************************************************)
SetsMaxLimit == 100
SetsDefaultLimit == 24
MaxTolerance == 405
MissingDist == 9999

\* the storage-level colour test: UPPER(REPLACE(COALESCE(color,''), '#','')) = ?
SqlColorEquals(color, hexNoHash) == SqlColorKey(color) = hexNoHash

\* the parameters as the handler reads them
SetParams(r) ==
  LET limit == Min(Max(ParseIntOr(r.limit, SetsDefaultLimit), 1), SetsMaxLimit)
      page == Max(ParseIntOr(r.page, 1), 1)
  IN  [qRaw |-> trim(r.q),
       color |-> trim(r.color),
       tolerance |-> Max(0, Min(MaxTolerance, ParseIntOr(r.tolerance, 0))),
       limit |-> limit,
       page |-> page,
       offset |-> (page - 1) * limit]

\* the rows fetched: exact colour and name in SQL when tolerance is 0, name
\* only otherwise
SetCandidates(tbl, hex, tolerance, like) ==
  LET hexNoHash == toUpperCase(SubSeq(hex, 2, Len(hex)))
      pat == toLowerCase(like)
  IN  IF tolerance = 0
      THEN SelectOrderByName(tbl,
             [i \in 1..Len(tbl) |->
                SqlColorEquals(tbl[i].color, hexNoHash) /\ LowerLike(tbl[i].name, pat)])
      ELSE SelectOrderByName(tbl, [i \in 1..Len(tbl) |-> LowerLike(tbl[i].name, pat)])

\* the colour rule of the bucketing loop for a row at distance dist
WithinTolerance(dist, tolerance) ==
  IF tolerance = 0 THEN dist = 0 ELSE dist <= tolerance

EmptySlots == [k \in Range(PieceKinds) |-> <<>>]

BucketKey(ownerUuid, setLabel, hex) ==
  LowerOwner(ownerUuid) \o "::" \o setLabel \o "::" \o SubSeq(hex, 2, Len(hex))

\* the position of the bucket of key in the insertion-ordered map, 0 if none
BucketAt(buckets, key) ==
  IF \E i \in 1..Len(buckets) : buckets[i].key = key
  THEN CHOOSE i \in 1..Len(buckets) : buckets[i].key = key
  ELSE 0

\* `if (!buckets.has(key)) buckets.set(key, {...})`
EnsureBucket(buckets, at, key, ownerUuid, setLabel, hex, rarity) ==
  IF at # 0 THEN buckets
  ELSE Append(buckets,
         [key |-> key, ownerUuid |-> ownerUuid, ownerUsername |-> NULL,
          setLabel |-> setLabel, color |-> hex, pieces |-> EmptySlots,
          pieceDist |-> EmptySlots, rarity |-> rarity])

\* a slot that every later row of the same kind overwrites
FillSlotLast(buckets, at, piece, r, dist) ==
  [buckets EXCEPT ![at].pieces[piece] = <<r>>,
                  ![at].pieceDist[piece] = <<dist>>,
                  ![at].rarity = IF ~Truthy(@) /\ Truthy(r.rarity) THEN r.rarity ELSE @]

\* `if (!g.pieces[piece]) { ... }` on the bucket at position at
FillSlot(buckets, at, piece, r, dist) ==
  IF buckets[at].pieces[piece] # <<>> THEN buckets
  ELSE [buckets EXCEPT ![at].pieces[piece] = <<r>>,
                       ![at].pieceDist[piece] = <<dist>>,
                       ![at].rarity = IF ~Truthy(@) /\ Truthy(r.rarity) THEN r.rarity ELSE @]

\* the part of an iteration after the colour rule
PlaceRow(buckets, at, key, r, ownerUuid, piece, dist, hex, setLabel) ==
  FillSlot(EnsureBucket(buckets, at, key, ownerUuid, setLabel, hex, r.rarity),
           IF at # 0 THEN at ELSE Len(buckets) + 1, piece, r, dist)

\* the part of an iteration after the three `continue`s on owner, piece
\* and colour
RuleRow(buckets, r, ownerUuid, piece, dist, hex, tolerance, setLabel, key) ==
  IF ~WithinTolerance(dist, tolerance) THEN buckets
  ELSE PlaceRow(buckets, BucketAt(buckets, key), key, r, ownerUuid, piece, dist, hex, setLabel)

CheckRow(buckets, r, ownerUuid, piece, itemHex, hex, tolerance, setLabel) ==
  IF ownerUuid = NULL THEN buckets
  ELSE IF piece = NULL THEN buckets
  ELSE IF itemHex = NULL THEN buckets
  ELSE RuleRow(buckets, r, ownerUuid, piece, DistOf(itemHex, hex), hex, tolerance, setLabel,
               BucketKey(ownerUuid, setLabel, hex))

\* one iteration of `for (const r of rows)`
AddToBuckets(buckets, r, hex, tolerance, setLabel) ==
  CheckRow(buckets, r, OwnerOf(r.extra), PieceOfName(r.name), HexOfColor(r.color),
           hex, tolerance, setLabel)

\* for (const r of rows), from the buckets so far
RECURSIVE AddAllToBuckets(_, _, _, _, _)
AddAllToBuckets(buckets, rows, hex, tolerance, setLabel) ==
  IF rows = <<>> \/ Len(buckets) < 0 THEN buckets
  ELSE IF Len(rows) = 1 THEN AddToBuckets(buckets, rows[1], hex, tolerance, setLabel)
  ELSE AddAllToBuckets(
         AddAllToBuckets(buckets, SubSeq(rows, 1, Len(rows) \div 2), hex, tolerance, setLabel),
         SubSeq(rows, Len(rows) \div 2 + 1, Len(rows)), hex, tolerance, setLabel)

Bucketize(rows, hex, tolerance, setLabel) ==
  AddAllToBuckets(<<>>, rows, hex, tolerance, setLabel)

RequiredKinds(wantHelmet) ==
  IF wantHelmet THEN <<"helmet", "chestplate", "leggings", "boots">>
  ELSE <<"chestplate", "leggings", "boots">>

\* a completeness test that applies the three-piece rule to every query
IsCompleteThreePiece(g, wantHelmet) ==
  g.pieces.chestplate # <<>> /\ g.pieces.leggings # <<>> /\ g.pieces.boots # <<>>

\* `complete` of a bucket
IsComplete(g, wantHelmet) ==
  IF wantHelmet
  THEN g.pieces.helmet # <<>> /\ g.pieces.chestplate # <<>>
       /\ g.pieces.leggings # <<>> /\ g.pieces.boots # <<>>
  ELSE g.pieces.chestplate # <<>> /\ g.pieces.leggings # <<>> /\ g.pieces.boots # <<>>

\* the distances of all four slots, whatever the kinds required
AllDists(g, kinds) ==
  [i \in 1..Len(PieceKinds) |->
     IF g.pieceDist[PieceKinds[i]] = <<>> THEN MissingDist ELSE g.pieceDist[PieceKinds[i]][1]]

\* req.map(pk => g.pieceDist[pk] ?? 9999)
RequiredDists(g, kinds) ==
  [i \in 1..Len(kinds) |->
     IF g.pieceDist[kinds[i]] = <<>> THEN MissingDist ELSE g.pieceDist[kinds[i]][1]]

\* Math.max(...dists)
MaxOf(dists) == CHOOSE m \in Range(dists) : \A d \in Range(dists) : d <= m

\* { ...g, isExact, avgDist, maxDist }; avgDist is sumDist / nDist
Ready(g, dists) ==
  [key |-> g.key, ownerUuid |-> g.ownerUuid, ownerUsername |-> g.ownerUsername,
   setLabel |-> g.setLabel, color |-> g.color, pieces |-> g.pieces,
   pieceDist |-> g.pieceDist, rarity |-> g.rarity,
   isExact |-> MaxOf(dists) = 0, maxDist |-> MaxOf(dists),
   sumDist |-> SumTo(dists, Len(dists)), nDist |-> Len(dists)]

\* the aggregate distances of a complete bucket
Aggregate(g, wantHelmet) == Ready(g, RequiredDists(g, RequiredKinds(wantHelmet)))

AggregateAll(kept, wantHelmet) == [i \in 1..Len(kept) |-> Aggregate(kept[i], wantHelmet)]

Completed(buckets, wantHelmet) ==
  AggregateAll(SelectSeq(buckets, LAMBDA g : IsComplete(g, wantHelmet)), wantHelmet)

\* the owners whose username is resolved
OwnersToResolve(completed) ==
  slice(Distinct([i \in 1..Len(completed) |-> completed[i].ownerUuid]), 0, LookupCap)

WithUsernames(completed, nameMap) ==
  [i \in 1..Len(completed) |->
     IF completed[i].ownerUuid \in DOMAIN nameMap
     THEN [completed[i] EXCEPT !.ownerUsername =
             IF Truthy(nameMap[completed[i].ownerUuid])
             THEN nameMap[completed[i].ownerUuid] ELSE NULL]
     ELSE completed[i]]

\* Math.round(sum / n)
RoundedAvg(sum, n) == (2 * sum + n) \div (2 * n)

PieceOut(slot) ==
  IF slot = <<>> THEN <<>> ELSE <<[uuid |-> slot[1].uuid, name |-> slot[1].name]>>

\* one record of the response
SetOut(g) ==
  [setLabel |-> g.setLabel, color |-> g.color,
   rarity |-> IF Truthy(g.rarity) THEN g.rarity ELSE NULL,
   ownerUuid |-> g.ownerUuid, ownerUsername |-> g.ownerUsername,
   isExact |-> g.isExact, avgDist |-> RoundedAvg(g.sumDist, g.nDist),
   pieces |-> [k \in Range(PieceKinds) |-> PieceOut(g.pieces[k])]]

BadRequest(msg) == [ok |-> FALSE, status |-> 400, error |-> msg]

\* the body of the catch block around a handler
ServerError(msg) == [ok |-> FALSE, status |-> 500, error |-> msg]

\* total ? Math.max(1, Math.ceil(total / limit)) : 0
TotalPages(total, limit) == IF total # 0 THEN Max(1, Ceil(total, limit)) ELSE 0

\* the usernames resolved and the sort
RankSets(completed, cw, ch, t, fetched) ==
  StableSort(WithUsernames(completed, NameMap(OwnersToResolve(completed), cw, ch, t, fetched)),
             "sets")

\* the complete sets of the request, before the usernames
SetsCompleted(tbl, p, hex) ==
  Completed(Bucketize(SetCandidates(tbl, hex, p.tolerance, SetLike(p.qRaw)), hex, p.tolerance,
                      titleCase(p.qRaw) \o " Set"),
            requiresHelmet(p.qRaw))

\* completed after completed.sort(...): the full ranked list of the request
SetsRanked(tbl, cw, ch, t, r, fetched) ==
  RankSets(SetsCompleted(tbl, SetParams(r), normalizeHex(SetParams(r).color)), cw, ch, t, fetched)

SetsBody(p, hex, ranked) ==
  [ok |-> TRUE, status |-> 200, page |-> p.page, limit |-> p.limit,
   total |-> Len(ranked), totalPages |-> TotalPages(Len(ranked), p.limit),
   items |-> [i \in 1..Len(slice(ranked, p.offset, p.offset + p.limit)) |->
                SetOut(ranked[p.offset + i])],
   targetHex |-> hex, tolerance |-> p.tolerance,
   requiresHelmet |-> requiresHelmet(p.qRaw)]

SetsAnswer(completed, p, hex, cw, ch, t, fetched) ==
  [resp |-> SetsBody(p, hex, RankSets(completed, cw, ch, t, fetched)),
   cache |-> CacheAfter(OwnersToResolve(completed), cw, ch, t, fetched),
   io |-> Io(Lookups(OwnersToResolve(completed), cw, ch, t, fetched), 1)]

\* some iteration of the bucketing loop passes its three `continue`s with an
\* owner that has no toLowerCase: the loop throws and the catch block answers
SetsThrows(rows, hex, tolerance) ==
  \E i \in 1..Len(rows) :
    /\ OwnerNotText(rows[i].extra)
    /\ PieceOfName(rows[i].name) # NULL
    /\ HexOfColor(rows[i].color) # NULL
    /\ WithinTolerance(DistOf(HexOfColor(rows[i].color), hex), tolerance)

SetsCaught(ch) ==
  [resp |-> ServerError("Internal Server Error"), cache |-> ch, io |-> Io(<<>>, 1)]

\* a validation that lets an empty set keyword through
SetsValidateColourOnly(tbl, p, hex, cw, ch, t, fetched) ==
  IF hex = NULL
  THEN [resp |-> BadRequest("Provide exact hex in color"), cache |-> ch, io |-> NoIo]
  ELSE SetsAnswer(SetsCompleted(tbl, p, hex), p, hex, cw, ch, t, fetched)

SetsValidate(tbl, p, hex, cw, ch, t, fetched) ==
  IF hex = NULL
  THEN [resp |-> BadRequest("Provide exact hex in color"), cache |-> ch, io |-> NoIo]
  ELSE IF p.qRaw = ""
  THEN [resp |-> BadRequest("Provide a set keyword in q"), cache |-> ch, io |-> NoIo]
  ELSE IF SetsThrows(SetCandidates(tbl, hex, p.tolerance, SetLike(p.qRaw)), hex, p.tolerance)
  THEN SetsCaught(ch)
  ELSE SetsAnswer(SetsCompleted(tbl, p, hex), p, hex, cw, ch, t, fetched)

\* the response and the cache after the request
SetsHandler(tbl, cw, ch, t, r, fetched) ==
  SetsValidate(tbl, SetParams(r), normalizeHex(SetParams(r).color), cw, ch, t, fetched)

(***************************************************************************)
(* Set search, the earlier revision without tolerance (exact colour only). *)
(***************************************************************************)
EnsureGroup(groups, at, key, ownerUuid, setLabel, hex, rarity) ==
  IF at # 0 THEN groups
  ELSE Append(groups,
         [key |-> key, ownerUuid |-> ownerUuid, ownerUsername |-> NULL,
          setLabel |-> setLabel, color |-> hex, pieces |-> EmptySlots, rarity |-> rarity])

\* `if (!g.pieces[piece]) g.pieces[piece] = r; if (!g.rarity && r.rarity) ...`
FillGroup(groups, at, piece, r) ==
  [groups EXCEPT ![at].pieces[piece] = IF @ = <<>> THEN <<r>> ELSE @,
                 ![at].rarity = IF ~Truthy(@) /\ Truthy(r.rarity) THEN r.rarity ELSE @]

PlaceInGroup(groups, at, key, r, ownerUuid, piece, hex, setLabel) ==
  FillGroup(EnsureGroup(groups, at, key, ownerUuid, setLabel, hex, r.rarity),
            IF at # 0 THEN at ELSE Len(groups) + 1, piece, r)

CheckGroupRow(groups, r, ownerUuid, piece, key, hex, setLabel) ==
  IF ownerUuid = NULL THEN groups
  ELSE IF piece = NULL THEN groups
  ELSE PlaceInGroup(groups, BucketAt(groups, key), key, r, ownerUuid, piece, hex, setLabel)

\* one iteration of its `for (const r of rows)`
AddToGroups(groups, r, hexNoHash, hex, setLabel) ==
  CheckGroupRow(groups, r, OwnerOf(r.extra), PieceOfName(r.name),
                LowerOwner(OwnerOf(r.extra)) \o "::" \o setLabel \o "::" \o hexNoHash,
                hex, setLabel)

RECURSIVE AddAllToGroups(_, _, _, _, _)
AddAllToGroups(groups, rows, hexNoHash, hex, setLabel) ==
  IF rows = <<>> \/ Len(groups) < 0 THEN groups
  ELSE IF Len(rows) = 1 THEN AddToGroups(groups, rows[1], hexNoHash, hex, setLabel)
  ELSE AddAllToGroups(
         AddAllToGroups(groups, SubSeq(rows, 1, Len(rows) \div 2), hexNoHash, hex, setLabel),
         SubSeq(rows, Len(rows) \div 2 + 1, Len(rows)), hexNoHash, hex, setLabel)

Groups(rows, hexNoHash, hex, setLabel) == AddAllToGroups(<<>>, rows, hexNoHash, hex, setLabel)

ExactSetOut(g) ==
  [setLabel |-> g.setLabel, color |-> g.color,
   rarity |-> IF Truthy(g.rarity) THEN g.rarity ELSE NULL,
   ownerUuid |-> g.ownerUuid, ownerUsername |-> g.ownerUsername,
   pieces |-> [k \in Range(PieceKinds) |-> PieceOut(g.pieces[k])]]

RankExactSets(completed, cw, ch, t, fetched) ==
  StableSort(WithUsernames(completed, NameMap(OwnersToResolve(completed), cw, ch, t, fetched)),
             "sets by label")

ExactSetsCompleted(tbl, p, hex) ==
  SelectSeq(Groups(SetCandidates(tbl, hex, 0, SetLike(p.qRaw)),
                   toUpperCase(SubSeq(hex, 2, Len(hex))), hex, titleCase(p.qRaw) \o " Set"),
            LAMBDA g : IsComplete(g, requiresHelmet(p.qRaw)))

ExactSetsRanked(tbl, cw, ch, t, r, fetched) ==
  RankExactSets(ExactSetsCompleted(tbl, SetParams(r), normalizeHex(SetParams(r).color)),
                cw, ch, t, fetched)

ExactSetsBody(p, hex, ranked) ==
  [ok |-> TRUE, status |-> 200, page |-> p.page, limit |-> p.limit,
   total |-> Len(ranked), totalPages |-> TotalPages(Len(ranked), p.limit),
   items |-> [i \in 1..Len(slice(ranked, p.offset, p.offset + p.limit)) |->
                ExactSetOut(ranked[p.offset + i])],
   targetHex |-> hex, requiresHelmet |-> requiresHelmet(p.qRaw)]

ExactSetsAnswer(completed, p, hex, cw, ch, t, fetched) ==
  [resp |-> ExactSetsBody(p, hex, RankExactSets(completed, cw, ch, t, fetched)),
   cache |-> CacheAfter(OwnersToResolve(completed), cw, ch, t, fetched),
   io |-> Io(Lookups(OwnersToResolve(completed), cw, ch, t, fetched), 1)]

\* some iteration of the grouping loop passes its two `continue`s with an
\* owner that has no toLowerCase
ExactSetsThrows(rows) ==
  \E i \in 1..Len(rows) : OwnerNotText(rows[i].extra) /\ PieceOfName(rows[i].name) # NULL

ExactSetsValidate(tbl, p, hex, cw, ch, t, fetched) ==
  IF hex = NULL
  THEN [resp |-> BadRequest("Provide exact hex in color"), cache |-> ch, io |-> NoIo]
  ELSE IF p.qRaw = ""
  THEN [resp |-> BadRequest("Provide a set keyword in q"), cache |-> ch, io |-> NoIo]
  ELSE IF ExactSetsThrows(SetCandidates(tbl, hex, 0, SetLike(p.qRaw)))
  THEN SetsCaught(ch)
  ELSE ExactSetsAnswer(ExactSetsCompleted(tbl, p, hex), p, hex, cw, ch, t, fetched)

ExactSetsHandler(tbl, cw, ch, t, r, fetched) ==
  ExactSetsValidate(tbl, SetParams(r), normalizeHex(SetParams(r).color), cw, ch, t, fetched)

(***************************************************************************)
(* Item search (GET of the search route).                                  *)
(***************************************************************************)
ItemMaxLimit == 200
ItemDefaultLimit == 50

\* the parameters with the offset of the page after the one requested
ItemParamsNextPage(r) ==
  [qRaw |-> trim(r.q),
   color |-> trim(r.color),
   uuidQ |-> trim(r.uuid),
   uuidsParam |-> trim(r.uuids),
   piece |-> toLowerCase(IF r.piece = "" THEN "all" ELSE r.piece),
   limit |-> Min(Max(ParseIntOr(r.limit, ItemDefaultLimit), 1), ItemMaxLimit),
   page |-> Max(ParseIntOr(r.page, 1), 1),
   offset |-> Max(ParseIntOr(r.page, 1), 1)
                * Min(Max(ParseIntOr(r.limit, ItemDefaultLimit), 1), ItemMaxLimit),
   tol |-> Max(0, Min(MaxTolerance, ParseIntOr(r.tolerance, 0)))]

\* the parameters as the handler reads them
ItemParams(r) ==
  LET limit == Min(Max(ParseIntOr(r.limit, ItemDefaultLimit), 1), ItemMaxLimit)
      page == Max(ParseIntOr(r.page, 1), 1)
  IN  [qRaw |-> trim(r.q),
       color |-> trim(r.color),
       uuidQ |-> trim(r.uuid),
       uuidsParam |-> trim(r.uuids),
       piece |-> toLowerCase(IF r.piece = "" THEN "all" ELSE r.piece),
       limit |-> limit,
       page |-> page,
       offset |-> (page - 1) * limit,
       tol |-> Max(0, Min(MaxTolerance, ParseIntOr(r.tolerance, 0)))]

\* uuidsParam.split(",").map(s => s.trim()).filter(Boolean)
RECURSIVE SplitCommas(_, _)
SplitCommas(s, cur) ==
  IF s = "" THEN <<cur>>
  ELSE IF Ch(s, 1) = "," THEN <<cur>> \o SplitCommas(SubSeq(s, 2, Len(s)), "")
  ELSE SplitCommas(SubSeq(s, 2, Len(s)), cur \o Ch(s, 1))

UuidList(uuidsParam) ==
  LET parts == SplitCommas(uuidsParam, "")
      trimmed == [i \in 1..Len(parts) |-> trim(parts[i])]
  IN  SelectSeq(trimmed, LAMBDA x : x # "")

\* the keyword table of the piece filter
PieceTerms ==
  [helmet |-> <<"helmet", "helm">>, chestplate |-> <<"chest">>,
   leggings |-> <<"legging", "pants">>, boots |-> <<"boot", "shoe">>]

\* the WHERE clause over the non-colour filters, for one row
ItemWhere(row, p) ==
  IF p.uuidsParam # ""
  THEN \E i \in 1..Len(UuidList(p.uuidsParam)) : row.uuid = UuidList(p.uuidsParam)[i]
  ELSE /\ p.uuidQ # "" => row.uuid = p.uuidQ
       /\ p.qRaw # "" => RawLike(row.name, "%" \o StarsToPercent(p.qRaw) \o "%")
       /\ p.piece \in DOMAIN PieceTerms =>
            \E j \in 1..Len(PieceTerms[p.piece]) :
              LowerLike(row.name, "%" \o PieceTerms[p.piece][j] \o "%")

\* SELECT ... WHERE <non-colour filters> ORDER BY name
BaseRows(tbl, p) ==
  SelectOrderByName(tbl, [i \in 1..Len(tbl) |-> ItemWhere(tbl[i], p)])

\* the partition of the base rows by colour: exact, and near with distance
ExactRows(baseRows, hex) ==
  SelectSeq(baseRows, LAMBDA r : HexOfColor(r.color) # NULL /\ HexOfColor(r.color) = hex)

WithDist(cand, hex) ==
  [i \in 1..Len(cand) |-> [row |-> cand[i], dist |-> DistOf(HexOfColor(cand[i].color), hex)]]

NearRows(baseRows, hex, tol) ==
  WithDist(SelectSeq(baseRows,
             LAMBDA r : /\ HexOfColor(r.color) # NULL
                        /\ HexOfColor(r.color) # hex
                        /\ DistOf(HexOfColor(r.color), hex) <= tol),
           hex)

RowsOf(near) == [i \in 1..Len(near) |-> near[i].row]

\* a ranking that lists the near rows before the exact ones
RankItemsNearFirst(baseRows, hex, tol) ==
  IF hex # NULL
  THEN RowsOf(StableSort(NearRows(baseRows, hex, tol), "near"))
         \o StableSort(ExactRows(baseRows, hex), "name")
  ELSE StableSort(baseRows, "name")

\* exact.sort(...), near.sort(...), and ranked = hex ? [...exact, ...near] : exact
RankItems(baseRows, hex, tol) ==
  IF hex # NULL
  THEN StableSort(ExactRows(baseRows, hex), "name")
         \o RowsOf(StableSort(NearRows(baseRows, hex, tol), "near"))
  ELSE StableSort(baseRows, "name")

\* the full ranked list of the in-memory path
ItemsRanked(tbl, p, hex) == RankItems(BaseRows(tbl, p), hex, p.tol)

\* the rows of the storage path: the non-colour filters AND the colour equality
ItemsExactSql(tbl, p, hex) ==
  SelectOrderByName(tbl,
    [i \in 1..Len(tbl) |->
       ItemWhere(tbl[i], p) /\ SqlColorEquals(tbl[i].color, toUpperCase(SubSeq(hex, 2, Len(hex))))])

\* LIMIT ? OFFSET ?
LimitOffset(rows, limit, offset) == slice(rows, offset, offset + limit)

\* a list that is empty for a colour that is given and is not a hex colour
ItemsFullStrict(tbl, p, hex) ==
  IF hex = NULL /\ p.color # "" THEN <<>>
  ELSE IF hex # NULL /\ p.tol = 0 THEN ItemsExactSql(tbl, p, hex) ELSE ItemsRanked(tbl, p, hex)

\* the list a request pages over, by either path
ItemsFull(tbl, p, hex) ==
  IF hex # NULL /\ p.tol = 0 THEN ItemsExactSql(tbl, p, hex) ELSE ItemsRanked(tbl, p, hex)

\* the owners of the rows without the cap
ItemOwnersUncapped(rows) ==
  Distinct(SelectSeq([i \in 1..Len(rows) |-> OwnerOf(rows[i].extra)], LAMBDA o : o # NULL))

\* decorate(rows): owner fields and usernames of the rows of the page
ItemOwners(rows) ==
  slice(Distinct(SelectSeq([i \in 1..Len(rows) |-> OwnerOf(rows[i].extra)], LAMBDA o : o # NULL)),
        0, LookupCap)

ItemOut(row, o, nameMap) ==
  [id |-> row.id, uuid |-> row.uuid, name |-> row.name,
   color |-> row.color, rarity |-> row.rarity, ownerUuid |-> o,
   ownerUsername |->
     IF o # NULL /\ o \in DOMAIN nameMap /\ Truthy(nameMap[o]) THEN nameMap[o] ELSE NULL]

decorate(rows, nameMap) ==
  [i \in 1..Len(rows) |-> ItemOut(rows[i], OwnerOf(rows[i].extra), nameMap)]

ItemsBody(p, hex, total, pageRows, nameMap) ==
  [ok |-> TRUE, status |-> 200, page |-> p.page, limit |-> p.limit,
   total |-> total, totalPages |-> TotalPages(total, p.limit),
   items |-> decorate(pageRows, nameMap),
   targetHex |-> hex, tolerance |-> p.tol]

ItemsAnswer(p, hex, total, pageRows, owners, cw, ch, t, fetched) ==
  [resp |-> ItemsBody(p, hex, total, pageRows, NameMap(owners, cw, ch, t, fetched)),
   cache |-> CacheAfter(owners, cw, ch, t, fetched),
   io |-> Io(Lookups(owners, cw, ch, t, fetched), IF hex # NULL /\ p.tol = 0 THEN 2 ELSE 1)]

\* rows.map of decorate reaches ownerUuid.replace with an owner that has no
\* replace: decorate throws and the catch block of GET answers
DecorateThrows(rows) == \E i \in 1..Len(rows) : OwnerNotText(rows[i].extra)

ItemsPage(p, hex, full, pageRows, cw, ch, t, fetched) ==
  IF DecorateThrows(pageRows)
  THEN [resp |-> ServerError("Internal Server Error"), cache |-> ch,
        io |-> Io(<<>>, IF hex # NULL /\ p.tol = 0 THEN 2 ELSE 1)]
  ELSE ItemsAnswer(p, hex, Len(full), pageRows, ItemOwners(pageRows), cw, ch, t, fetched)

ItemsRespond(p, hex, full, cw, ch, t, fetched) ==
  ItemsPage(p, hex, full, LimitOffset(full, p.limit, p.offset), cw, ch, t, fetched)

ItemsRouted(tbl, p, hex, cw, ch, t, fetched) ==
  ItemsRespond(p, hex, ItemsFull(tbl, p, hex), cw, ch, t, fetched)

ItemsHandler(tbl, cw, ch, t, r, fetched) ==
  ItemsRouted(tbl, ItemParams(r), normalizeHex(ItemParams(r).color), cw, ch, t, fetched)

(***************************************************************************)
(* Legacy search over the CSV dataset (app/api/old/route.ts, GET).  The    *)
(* dataset is modelled after parseTable: a list of rows, each a record of  *)
(* trimmed column values, "" for an absent or empty column.                *)
(***************************************************************************)
OldMaxLimit == 200
OldDefaultLimit == 24
OldMaxTolerance == 10000

\* normalizeHex of the legacy route: "#rrggbb" in lower case, or NULL
oldNormalizeHex(h) ==
  IF h = NULL \/ h = "" THEN NULL
  ELSE IF IsHexOfLen(toLowerCase(trim(IF startsWith(h, "#") THEN SubSeq(h, 2, Len(h)) ELSE h)), 6)
       THEN "#" \o toLowerCase(trim(IF startsWith(h, "#") THEN SubSeq(h, 2, Len(h)) ELSE h))
       ELSE NULL

\* parseInt(x.slice(2 * k - 2, 2 * k), 16) for channel k of "#rrggbb"
Channel(hex, k) == 16 * HexVal[Ch(hex, 2 * k)] + HexVal[Ch(hex, 2 * k + 1)]

hexToRgb(hex) == <<Channel(hex, 1), Channel(hex, 2), Channel(hex, 3)>>

rgbDist(a, b) == Abs(a[1] - b[1]) + Abs(a[2] - b[2]) + Abs(a[3] - b[3])

UnderscoreToSpace == [c \in Alphabet |-> IF c = "_" THEN " " ELSE c]

\* s.toLowerCase().replace(/_/g, " ").replace(/\b([a-z])/g, m => m.toUpperCase())
toTitleCaseWords(s) == CapitalizeFrom(MapStr(UnderscoreToSpace, toLowerCase(s)), 1)

\* raw.replace(/^OLD_DRAGON_/, "Old Dragon ")
OldDragonPrefix(raw) ==
  IF startsWith(raw, "OLD_DRAGON_") THEN "Old Dragon " \o SubSeq(raw, 12, Len(raw)) ELSE raw

nameFromPiece(itemId, pieceType) ==
  IF pieceType = "" /\ itemId = "" THEN "Old Dragon Piece"
  ELSE toTitleCaseWords(OldDragonPrefix(IF pieceType # "" THEN pieceType ELSE itemId))

\* mapRow reads `it.ownerUsername` of an undeclared `it` when the row has an
\* owner: a ReferenceError
mapRowThrows(row) == row.playerUuid # ""

mapRow(row) ==
  [uuid |-> IF row._id # "" THEN row._id ELSE row.id,
   name |-> nameFromPiece(row.itemId, row.piece_type),
   color |-> IF oldNormalizeHex(row.color_hex) # NULL THEN oldNormalizeHex(row.color_hex)
             ELSE oldNormalizeHex(row.colour),
   rarity |-> IF row.rarity # "" THEN row.rarity ELSE NULL,
   ownerUuid |-> NULL, ownerUsername |-> NULL, raw |-> row]

\* parseInt(searchParams.get(p) || String(dflt), 10), without a fallback
OldInt(raw, dflt) == IF raw.kind = "absent" THEN dflt ELSE raw.val

OldParams(r) ==
  [q |-> toLowerCase(trim(r.q)),
   color |-> oldNormalizeHex(r.color),
   tol |-> Max(0, Min(OldMaxTolerance, ParseIntOr(r.tolerance, 0))),
   page |-> Max(1, OldInt(r.page, 1)),
   limit |-> Max(1, Min(OldMaxLimit, OldInt(r.limit, OldDefaultLimit)))]

(***************************************************************************)
(* The page, limit and tolerance parameters as text.  A JavaScript number  *)
(* is an integer or NaN.                                                   *)
(***************************************************************************)
NaN == [nan |-> TRUE, val |-> 0]
Finite(n) == [nan |-> FALSE, val |-> n]
Undefined == [undefined |-> TRUE]
NotANumber == [kind |-> "nan", val |-> 0]

\* the decimal digits at the start of s
RECURSIVE LeadingDigits(_)
LeadingDigits(s) ==
  IF s # "" /\ IndexIn(Ch(s, 1), DigitChars) > 0
  THEN Ch(s, 1) \o LeadingDigits(SubSeq(s, 2, Len(s)))
  ELSE ""

RECURSIVE DigitsValue(_)
DigitsValue(d) ==
  IF d = "" THEN 0
  ELSE 10 * DigitsValue(SubSeq(d, 1, Len(d) - 1)) + (IndexIn(Ch(d, Len(d)), DigitChars) - 1)

Unsigned(s) == IF LeadingDigits(s) = "" THEN NaN ELSE Finite(DigitsValue(LeadingDigits(s)))
Negated(x) == IF x.nan THEN NaN ELSE Finite(0 - x.val)

\* parseInt(s, 10): leading white space, a sign, then the digits up to the
\* first other character; NaN without a digit
parseInt(s) ==
  IF startsWith(TrimLeft(s), "-")
  THEN Negated(Unsigned(SubSeq(TrimLeft(s), 2, Len(TrimLeft(s)))))
  ELSE Unsigned(TrimLeft(s))

\* Math.max and Math.min: NaN when an argument is NaN
mathMax(a, b) == IF a.nan \/ b.nan THEN NaN ELSE Finite(Max(a.val, b.val))
mathMin(a, b) == IF a.nan \/ b.nan THEN NaN ELSE Finite(Min(a.val, b.val))

\* searchParams.get(p) || dflt
OrText(text, dflt) == IF text = NULL \/ text = "" THEN dflt ELSE text

\* the parameter as the handlers with a fallback (parseInt(...) || dflt) read it
ParamOf(text) ==
  IF text = NULL \/ text = "" THEN Absent
  ELSE IF parseInt(text).nan THEN NotANumber
  ELSE Num(parseInt(text).val)

\* page, limit and tolerance of the legacy route
OldPaging(page, limit, tolerance) ==
  [page |-> mathMax(Finite(1), parseInt(OrText(page, "1"))),
   limit |-> mathMax(Finite(1), mathMin(Finite(OldMaxLimit), parseInt(OrText(limit, "24")))),
   tolerance |-> Finite(Max(0, Min(OldMaxTolerance, ParseIntOr(ParamOf(tolerance), 0))))]

\* page, limit and tolerance of the second handler of the sets route file
StubPaging(page, limit, tolerance) ==
  [page |-> mathMax(Finite(1), parseInt(OrText(page, "1"))),
   limit |-> mathMax(Finite(1), mathMin(Finite(SetsMaxLimit), parseInt(OrText(limit, "24")))),
   tolerance |-> IF tolerance = NULL \/ tolerance = "" THEN Undefined
                 ELSE mathMax(Finite(0), parseInt(tolerance))]

\* page, limit and tolerance of the set search
SetsPaging(p) == [page |-> Finite(p.page), limit |-> Finite(p.limit), tolerance |-> Finite(p.tolerance)]

\* page and limit of the set search without tolerance
ExactSetsPaging(p) == [page |-> Finite(p.page), limit |-> Finite(p.limit), tolerance |-> Undefined]

\* page, limit and tolerance of the item search
ItemsPaging(p) == [page |-> Finite(p.page), limit |-> Finite(p.limit), tolerance |-> Finite(p.tol)]

\* the text filter
OldTextHit(it, q) ==
  \/ includes(toLowerCase(it.name), q)
  \/ includes(toLowerCase(it.raw.piece_type), q)
  \/ includes(toLowerCase(it.raw.itemId), q)
  \/ includes(toLowerCase(it.raw.reforge), q)
  \/ includes(toLowerCase(it.raw.rarity), q)
  \/ includes(toLowerCase(it.raw.playerUuid), q)

\* the colour filter
OldColorHit(it, color, tol) ==
  it.color # NULL /\ rgbDist(hexToRgb(it.color), hexToRgb(color)) <= tol

OldFiltered(mapped, p) ==
  SelectSeq(mapped, LAMBDA it : /\ p.q # "" => OldTextHit(it, p.q)
                                /\ p.color # NULL => OldColorHit(it, p.color, p.tol))

OldItemOut(it) ==
  [uuid |-> it.uuid, name |-> it.name, color |-> it.color, rarity |-> it.rarity,
   ownerUuid |-> it.ownerUuid, ownerUsername |-> it.ownerUsername]

OldBody(p, itemsOut) ==
  [ok |-> TRUE, status |-> 200, page |-> p.page, limit |-> p.limit,
   total |-> Len(itemsOut), totalPages |-> Max(1, Ceil(Len(itemsOut), p.limit)),
   items |-> [i \in 1..Len(slice(itemsOut, (p.page - 1) * p.limit, (p.page - 1) * p.limit + p.limit))
                |-> OldItemOut(itemsOut[(p.page - 1) * p.limit + i])]]

OldHandler(dataset, r) ==
  IF ~dataset.found THEN ServerError("Dataset not found at /data/old_dragon_pieces_clean.csv")
  ELSE IF \E i \in 1..Len(dataset.rows) : mapRowThrows(dataset.rows[i])
       THEN ServerError("it is not defined")
       ELSE OldBody(OldParams(r),
                    OldFiltered([i \in 1..Len(dataset.rows) |-> mapRow(dataset.rows[i])],
                                OldParams(r)))

(***************************************************************************)
(* Actions.                                                                *)
(***************************************************************************)
\* the answers of the profile service when the lookups of the owners in
\* failed get a non-success response
Answers(failed) ==
  [u \in DOMAIN Directory |->
     IF u \in failed THEN [status |-> "error", name |-> NULL]
     ELSE [status |-> "ok", name |-> Directory[u]]]

\* the owners whose lookup may fail
Failable == {"a1", "b2"}

StartTime == 10 * DAY_MS

Init ==
  /\ items = <<>>
  /\ imported = 0
  /\ canWrite = FALSE
  /\ cache = <<>>
  /\ now = StartTime
  /\ csv = 1
  /\ service = Answers({})
  /\ req = NoReq
  /\ resp = NoResp
  /\ io = NoIo
  /\ calls = NoCalls
  /\ view = NoView
  /\ storage = NoStorage

\* node scripts/import.js on data file f, between two requests
Import(f) ==
  /\ req = NoReq
  /\ f > imported
  /\ Len(UpsertAll(items, DataFiles[f])) <= MaxRows
  /\ items' = UpsertAll(items, DataFiles[f])
  /\ imported' = f
  /\ UNCHANGED <<view, storage, canWrite, cache, now, csv, service, req, resp, io, calls>>

ImportFile == \E f \in 1..Len(DataFiles) : Import(f)

SetRequest(q, c, tol, l, pg) ==
  [endpoint |-> "sets", q |-> q, color |-> c, tolerance |-> Num(tol),
   limit |-> Num(l), page |-> Num(pg)]

\* the response is delivered: no request is being served
Deliver ==
  /\ req # NoReq
  /\ resp # NoResp
  /\ req' = NoReq
  /\ resp' = NoResp
  /\ service' = Answers({})
  /\ io' = NoIo
  /\ calls' = NoCalls
  /\ UNCHANGED <<view, storage, items, imported, canWrite, cache, now, csv>>

ItemRequest(q, c, tol, u, us, pc, l, pg) ==
  [endpoint |-> "search", q |-> q, color |-> c, tolerance |-> Num(tol), uuid |-> u,
   uuids |-> us, piece |-> pc, limit |-> Num(l), page |-> Num(pg)]

\* the handler h has answered request r with the lookups answered by fetched
Respond(r, fetched, h) ==
  /\ req' = r
  /\ service' = fetched
  /\ resp' = h.resp
  /\ cache' = h.cache
  /\ io' = h.io
  /\ UNCHANGED <<view, storage, items, imported, canWrite, now, csv, calls>>

\* GET /api/search
ItemSearch ==
  /\ req = NoReq
  /\ \E q \in ItemQueries, c \in ItemColors, tol \in ItemTolerances, u \in ItemUuids,
        us \in ItemUuidLists, pc \in ItemPieces, l \in Limits, pg \in Pages :
      \E h \in {ItemsHandler(items, canWrite, cache, now,
                             ItemRequest(q, c, tol, u, us, pc, l, pg), Answers({}))} :
        Respond(ItemRequest(q, c, tol, u, us, pc, l, pg), Answers({}), h)

\* GET /api/sets
SetSearch ==
  /\ req = NoReq
  /\ \E q \in SetQueries, c \in SetColors, tol \in SetTolerances, l \in Limits, pg \in Pages,
        failed \in SUBSET Failable :
      \E h \in {SetsHandler(items, canWrite, cache, now,
                            SetRequest(q, c, tol, l, pg), Answers(failed))} :
        Respond(SetRequest(q, c, tol, l, pg), Answers(failed), h)

ExactSetRequest(q, c, l, pg) ==
  [endpoint |-> "sets-exact", q |-> q, color |-> c, tolerance |-> Absent,
   limit |-> Num(l), page |-> Num(pg)]

\* GET /api/sets of the revision without tolerance
ExactSetSearch ==
  /\ req = NoReq
  /\ \E q \in SetQueries, c \in SetColors, l \in Limits, pg \in Pages,
        failed \in SUBSET Failable :
      \E h \in {ExactSetsHandler(items, canWrite, cache, now,
                                 ExactSetRequest(q, c, l, pg), Answers(failed))} :
        Respond(ExactSetRequest(q, c, l, pg), Answers(failed), h)

OldRequest(q, c, tol, l, pg) ==
  [endpoint |-> "old", q |-> q, color |-> c, tolerance |-> Num(tol),
   limit |-> Num(l), page |-> Num(pg)]

\* a deployment with another legacy dataset
DeployDataset ==
  /\ req = NoReq
  /\ \E d \in 1..Len(Datasets) : d > csv /\ csv' = d
  /\ UNCHANGED <<view, storage, items, imported, canWrite, cache, now, service, req, resp, io, calls>>

\* GET /api/old
OldSearch ==
  /\ req = NoReq
  /\ \E q \in OldQueries, c \in OldColors, tol \in OldTolerances, l \in Limits, pg \in Pages :
       /\ req' = OldRequest(q, c, tol, l, pg)
       /\ resp' = OldHandler(Datasets[csv], OldRequest(q, c, tol, l, pg))
       /\ io' = Io(<<>>, 0)
       /\ UNCHANGED <<view, storage, items, imported, canWrite, cache, now, csv, service, calls>>

\* the state after construction in either deployment mode
InitAnyMode ==
  /\ items = <<>>
  /\ imported = 0
  /\ canWrite \in BOOLEAN
  /\ cache = <<>>
  /\ now = StartTime
  /\ csv = 1
  /\ service = Answers({})
  /\ req = NoReq
  /\ resp = NoResp
  /\ io = NoIo
  /\ calls = NoCalls
  /\ view = NoView
  /\ storage = NoStorage

\* the importer run on a bulk data file, into the empty table
ImportBulk ==
  /\ req = NoReq
  /\ items = <<>>
  /\ \E n \in (LookupCap - 1)..MaxOwners :
       /\ items' = UpsertAll(items, BulkFile(n))
       /\ imported' = Len(DataFiles) + n
  /\ UNCHANGED <<view, storage, canWrite, cache, now, csv, service, req, resp, io, calls>>

\* the requests over a bulk table
BulkLimits == {Absent, Num(50), Num(200)}
BulkPages == {1, 2}

\* GET /api/search over a bulk table
BulkItemSearch ==
  /\ req = NoReq
  /\ \E l \in BulkLimits, pg \in BulkPages :
      \E h \in {ItemsHandler(items, canWrite, cache, now,
                             [ItemRequest("", "", 0, "", "", "all", 0, pg) EXCEPT !.limit = l],
                             Answers({}))} :
        Respond([ItemRequest("", "", 0, "", "", "all", 0, pg) EXCEPT !.limit = l], Answers({}), h)

\* GET /api/sets over a bulk table
BulkSetSearch ==
  /\ req = NoReq
  /\ \E l \in BulkLimits, pg \in BulkPages :
      \E h \in {SetsHandler(items, canWrite, cache, now,
                            [SetRequest("wise dragon", "aaa", 0, 0, pg) EXCEPT !.limit = l],
                            Answers({}))} :
        Respond([SetRequest("wise dragon", "aaa", 0, 0, pg) EXCEPT !.limit = l], Answers({}), h)

\* GET /api/sets of the revision without tolerance over a bulk table
BulkExactSetSearch ==
  /\ req = NoReq
  /\ \E l \in BulkLimits, pg \in BulkPages :
      \E h \in {ExactSetsHandler(items, canWrite, cache, now,
                                 [ExactSetRequest("wise dragon", "aaa", 0, pg) EXCEPT !.limit = l],
                                 Answers({}))} :
        Respond([ExactSetRequest("wise dragon", "aaa", 0, pg) EXCEPT !.limit = l], Answers({}), h)

NextBulk == ImportBulk \/ BulkItemSearch \/ BulkSetSearch \/ BulkExactSetSearch \/ Deliver

SpecBulk == InitAnyMode /\ [][NextBulk]_vars

(***************************************************************************)
(* The requests with their resolveUsername calls completing one at a time: *)
(* await Promise.all(owners.map(async u => nameMap.set(u, await            *)
(* resolveUsername(u)))).  Every call runs to its first await when it is   *)
(* made; the lookups then complete in any order, each setting its entry of *)
(* the Map; the handler goes on when all have.                             *)
(***************************************************************************)
\* the owners whose call is still awaited
Awaited(c) == {u \in Range(c.owners) : u \notin DOMAIN c.nameMap}

\* the handler going on when the first call has completed
PromiseRace(c) == c.owners = <<>> \/ \E u \in Range(c.owners) : u \in DOMAIN c.nameMap

\* await Promise.all: every call has completed
PromiseAll(c) == \A u \in Range(c.owners) : u \in DOMAIN c.nameMap

\* the calls when made: those that issue no lookup have their result
CallsMade(owners, cw, ch, t, fetched) ==
  [owners |-> owners,
   nameMap |-> [u \in {v \in Range(owners) : ~resolveUsername(v, cw, ch, t, fetched).lookup} |->
                  resolveUsername(u, cw, ch, t, fetched).name],
   settled |-> <<>>,
   before |-> ch]

\* the handler of request r has made its calls
FanOut(r, fetched, owners, selects) ==
  /\ req' = r
  /\ service' = fetched
  /\ resp' = NoResp
  /\ io' = Io(Lookups(owners, canWrite, cache, now, fetched), selects)
  /\ calls' = CallsMade(owners, canWrite, cache, now, fetched)
  /\ UNCHANGED <<view, storage, items, imported, canWrite, cache, now, csv>>

\* GET /api/sets up to Promise.all, or to the response when it has none
StartSets(r, fetched, p, hex) ==
  IF \/ hex = NULL
     \/ p.qRaw = ""
     \/ SetsThrows(SetCandidates(items, hex, p.tolerance, SetLike(p.qRaw)), hex, p.tolerance)
  THEN \E h \in {SetsHandler(items, canWrite, cache, now, r, fetched)} : Respond(r, fetched, h)
  ELSE FanOut(r, fetched, OwnersToResolve(SetsCompleted(items, p, hex)), 1)

\* the requests served one call at a time
FanColors == {"aaa", "zzz"}
FanTolerances == {0, 2}
FanLimits == {0, 1}

StartSetSearch ==
  /\ req = NoReq
  /\ \E c \in FanColors, tol \in FanTolerances, l \in FanLimits, failed \in SUBSET Failable :
       StartSets(SetRequest("wise dragon", c, tol, l, 1), Answers(failed),
                 SetParams(SetRequest("wise dragon", c, tol, l, 1)),
                 normalizeHex(SetParams(SetRequest("wise dragon", c, tol, l, 1)).color))

\* GET /api/search up to the Promise.all of decorate
StartItems(r, fetched, p, hex) ==
  IF DecorateThrows(LimitOffset(ItemsFull(items, p, hex), p.limit, p.offset))
  THEN \E h \in {ItemsHandler(items, canWrite, cache, now, r, fetched)} : Respond(r, fetched, h)
  ELSE FanOut(r, fetched, ItemOwners(LimitOffset(ItemsFull(items, p, hex), p.limit, p.offset)),
              IF hex # NULL /\ p.tol = 0 THEN 2 ELSE 1)

StartItemSearch ==
  /\ req = NoReq
  /\ \E c \in FanColors, tol \in FanTolerances, failed \in SUBSET Failable :
       StartItems(ItemRequest("", c, tol, "", "", "all", 0, 1), Answers(failed),
                  ItemParams(ItemRequest("", c, tol, "", "", "all", 0, 1)),
                  normalizeHex(ItemParams(ItemRequest("", c, tol, "", "", "all", 0, 1)).color))

\* the lookup of owner u completes with result res: the cache row is
\* written and nameMap.set(u, ...) runs
Settle(u, res) ==
  /\ cache' = CacheWith(cache, res.writes)
  /\ calls' = [calls EXCEPT !.nameMap = [v \in DOMAIN @ \cup {u} |-> IF v = u THEN res.name ELSE @[v]],
                            !.settled = Append(@, u)]
  /\ UNCHANGED <<view, storage, items, imported, canWrite, now, csv, service, req, resp, io>>

\* one of the lookups awaited completes
Complete ==
  /\ req # NoReq
  /\ resp = NoResp
  /\ \E u \in Awaited(calls) :
       Settle(u, resolveUsername(u, canWrite, calls.before, now, service))

\* the set search after Promise.all: usernames, sort, page
SetsAfterAll(p, hex, nameMap) ==
  SetsBody(p, hex, StableSort(WithUsernames(SetsCompleted(items, p, hex), nameMap), "sets"))

\* the item search after the Promise.all of decorate
ItemsAfterAll(p, hex, full, nameMap) ==
  ItemsBody(p, hex, Len(full), LimitOffset(full, p.limit, p.offset), nameMap)

\* the handler goes on after Promise.all and responds
FanIn ==
  /\ req # NoReq
  /\ resp = NoResp
  /\ PromiseAll(calls)
  /\ resp' = IF req.endpoint = "sets"
             THEN SetsAfterAll(SetParams(req), normalizeHex(SetParams(req).color), calls.nameMap)
             ELSE ItemsAfterAll(ItemParams(req), normalizeHex(ItemParams(req).color),
                                ItemsFull(items, ItemParams(req),
                                          normalizeHex(ItemParams(req).color)),
                                calls.nameMap)
  /\ UNCHANGED <<view, storage, items, imported, canWrite, cache, now, csv, service, req, io, calls>>

NextFan == ImportFile \/ StartSetSearch \/ StartItemSearch \/ Complete \/ FanIn \/ Deliver

SpecFan == InitAnyMode /\ [][NextFan]_vars

(***************************************************************************)
(* The username cache over time: requests in the writable deployment, the  *)
(* clock advancing between them, and the database file with its            *)
(* username_cache rows deployed to the read-only runtime (lib/db.ts).      *)
(***************************************************************************)
\* what may happen to a lookup: the service answers, answers with a
\* non-success status, the fetch throws, the SELECT on the cache throws,
\* the INSERT into the cache throws
LookupStatuses == {"ok", "error", "throw", "read error", "write error"}

\* the profile service and the cache access while a request is served
AnswersWith(st) ==
  [u \in DOMAIN Directory |->
     IF u \in DOMAIN st /\ st[u] \in {"error", "throw"}
     THEN [status |-> st[u], name |-> NULL]
     ELSE [status |-> IF u \in DOMAIN st THEN st[u] ELSE "ok", name |-> Directory[u]]]

\* the clock advances by half a day, at most MaxTicks times
MaxTicks == 3
HalfDay == DAY_MS \div 2

Tick ==
  /\ req = NoReq
  /\ now < StartTime + MaxTicks * HalfDay
  /\ now' = now + HalfDay
  /\ UNCHANGED <<view, storage, items, imported, canWrite, cache, csv, service, req, resp, io, calls>>

\* the database file is deployed to the read-only runtime
DeployReadOnly ==
  /\ req = NoReq
  /\ canWrite
  /\ canWrite' = FALSE
  /\ UNCHANGED <<view, storage, items, imported, cache, now, csv, service, req, resp, io, calls>>

\* the importer run on the data files with the sets of a1 and of b2
ImportOwned == Import(1) \/ Import(3)

\* GET /api/sets with each outcome of the lookups
CachedSetSearch ==
  /\ req = NoReq
  /\ \E st \in [Failable -> LookupStatuses] :
      \E h \in {SetsHandler(items, canWrite, cache, now,
                            SetRequest("wise dragon", "aaa", 0, 0, 1), AnswersWith(st))} :
        Respond(SetRequest("wise dragon", "aaa", 0, 0, 1), AnswersWith(st), h)

\* GET /api/search with each outcome of the lookups
CachedItemSearch ==
  /\ req = NoReq
  /\ \E st \in [Failable -> LookupStatuses] :
      \E h \in {ItemsHandler(items, canWrite, cache, now,
                             ItemRequest("", "", 0, "", "", "all", 0, 1), AnswersWith(st))} :
        Respond(ItemRequest("", "", 0, "", "", "all", 0, 1), AnswersWith(st), h)

NextCache ==
  ImportOwned \/ CachedSetSearch \/ CachedItemSearch \/ Tick \/ DeployReadOnly \/ Deliver

SpecCache == InitAnyMode /\ [][NextCache]_vars

(***************************************************************************)
(* Set searches with any text in q and color.                              *)
(***************************************************************************)
AnyQueries == {"", "  ", "wise dragon"}
AnyColors == {"", "zzz", "#aaaa", "g00000", "aaa", " #AAAAAA "}

\* GET /api/sets
AnySetSearch ==
  /\ req = NoReq
  /\ \E q \in AnyQueries, c \in AnyColors :
      \E h \in {SetsHandler(items, canWrite, cache, now, SetRequest(q, c, 0, 0, 1), Answers({}))} :
        Respond(SetRequest(q, c, 0, 0, 1), Answers({}), h)

\* GET /api/sets of the revision without tolerance
AnyExactSetSearch ==
  /\ req = NoReq
  /\ \E q \in AnyQueries, c \in AnyColors :
      \E h \in {ExactSetsHandler(items, canWrite, cache, now, ExactSetRequest(q, c, 0, 1),
                                 Answers({}))} :
        Respond(ExactSetRequest(q, c, 0, 1), Answers({}), h)

NextValidate == ImportOwned \/ AnySetSearch \/ AnyExactSetSearch \/ Tick \/ Deliver

SpecValidate == InitAnyMode /\ [][NextValidate]_vars

(***************************************************************************)
(* Rows whose extra column is not what the importer of this repository     *)
(* writes for an owned piece: every handler reads the column through       *)
(* JSON.parse in a try/catch and uses the owner after it.                  *)
(***************************************************************************)
OddRows ==
  { Item("j01", "Wise Dragon Boots", "#AAAAAA", NULL, Malformed),
    Item("j02", "Wise Dragon Boots", "#AAAAAA", NULL, Owned("")),
    Item("j03", "Wise Dragon Boots", "#AAAAAA", NULL, NoOwner),
    Item("j04", "Wise Dragon Boots", "#AAAAAD", NULL, OwnedByNumber("12345")),
    Item("j05", "Wise Dragon Boots", "#AAAAAA", NULL, OwnedByNumber("12345")) }

\* the importer run on a file of one such row
ImportOdd ==
  /\ req = NoReq
  /\ \E row \in OddRows :
       /\ \A i \in 1..Len(items) : items[i].uuid # row.uuid
       /\ Len(items) < MaxRows
       /\ items' = UpsertAll(items, <<row>>)
  /\ UNCHANGED <<view, storage, imported, canWrite, cache, now, csv, service, req, resp, io, calls>>

ExtraTolerances == {0, 2}

\* GET /api/sets?q=wise dragon&color=aaa
OddSetSearch ==
  /\ req = NoReq
  /\ \E tol \in ExtraTolerances :
      \E h \in {SetsHandler(items, canWrite, cache, now,
                            SetRequest("wise dragon", "aaa", tol, 0, 1), Answers({}))} :
        Respond(SetRequest("wise dragon", "aaa", tol, 0, 1), Answers({}), h)

\* the same request to the revision without tolerance
OddExactSetSearch ==
  /\ req = NoReq
  /\ \E h \in {ExactSetsHandler(items, canWrite, cache, now,
                                 ExactSetRequest("wise dragon", "aaa", 0, 1), Answers({}))} :
       Respond(ExactSetRequest("wise dragon", "aaa", 0, 1), Answers({}), h)

\* GET /api/search?color=aaa
OddItemSearch ==
  /\ req = NoReq
  /\ \E tol \in ExtraTolerances :
      \E h \in {ItemsHandler(items, canWrite, cache, now,
                             ItemRequest("", "aaa", tol, "", "", "all", 0, 1), Answers({}))} :
        Respond(ItemRequest("", "aaa", tol, "", "", "all", 0, 1), Answers({}), h)

NextExtra ==
  Import(1) \/ ImportOdd \/ OddSetSearch \/ OddExactSetSearch \/ OddItemSearch \/ Deliver

SpecExtra == InitAnyMode /\ [][NextExtra]_vars

(***************************************************************************)
(* normalizeHex as a function of its argument, in each file that defines   *)
(* it: the search and set-search routes, the legacy route, and the second  *)
(* handler of the sets route file.                                         *)
(***************************************************************************)
HexChunks == {"", "a", "0F", "abc", "9Bc", "g1", "zzz", "AAA"}
HexPrefixes == {"", "#", " #", "##", "# "}
HexSuffixes == {"", " "}

\* the arguments: no argument, and a body of up to six characters behind a
\* prefix and before a suffix
HexInputs ==
  {NULL} \cup {pre \o x \o y \o post :
                 pre \in HexPrefixes, x \in HexChunks, y \in HexChunks, post \in HexSuffixes}

HexCall(input) == [endpoint |-> "normalizeHex", input |-> input]

InitHex ==
  /\ items = <<>>
  /\ imported = 0
  /\ canWrite = FALSE
  /\ cache = <<>>
  /\ now = StartTime
  /\ csv = 1
  /\ service = Answers({})
  /\ req \in {HexCall(input) : input \in HexInputs}
  /\ resp = NoResp
  /\ io = NoIo
  /\ calls = NoCalls
  /\ view = NoView
  /\ storage = NoStorage

\* the function of one file returns
Returns(definedIn, value) ==
  /\ resp' = [definedIn |-> definedIn, value |-> value]
  /\ UNCHANGED <<view, storage, items, imported, canWrite, cache, now, csv, service, req, io, calls>>

CallNormalizeHex ==
  /\ req.endpoint = "normalizeHex"
  /\ resp = NoResp
  /\ Returns("search and set search", normalizeHex(req.input))

CallOldNormalizeHex ==
  /\ req.endpoint = "normalizeHex"
  /\ resp = NoResp
  /\ Returns("legacy search", oldNormalizeHex(req.input))

CallNormalizeHexPermissive ==
  /\ req.endpoint = "normalizeHex"
  /\ resp = NoResp
  /\ Returns("stored sets", normalizeHexPermissive(req.input))

NextHex == CallNormalizeHex \/ CallOldNormalizeHex \/ CallNormalizeHexPermissive

SpecHex == InitHex /\ [][NextHex]_vars

(***************************************************************************)
(* nibbleDistance as a function of two canonical colours.                  *)
(***************************************************************************)
\* the channels the colours are made of
ChannelTexts == {"00", "FF", "0F", "F0", "1E"}

CanonicalColours == {"#" \o r \o g \o b : r \in ChannelTexts, g \in ChannelTexts, b \in ChannelTexts}

InitDistance ==
  /\ items = <<>>
  /\ imported = 0
  /\ canWrite = FALSE
  /\ cache = <<>>
  /\ now = StartTime
  /\ csv = 1
  /\ service = Answers({})
  /\ req \in {[endpoint |-> "nibbleDistance", a |-> a, b |-> b] :
                a \in CanonicalColours, b \in CanonicalColours}
  /\ resp = NoResp
  /\ io = NoIo
  /\ calls = NoCalls
  /\ view = NoView
  /\ storage = NoStorage

CallNibbleDistance ==
  /\ req.endpoint = "nibbleDistance"
  /\ resp = NoResp
  /\ Returns("search and set search", nibbleDistance(req.a, req.b))

NextDistance == CallNibbleDistance

SpecDistance == InitDistance /\ [][NextDistance]_vars

(***************************************************************************)
(* detectPiece as a function of the name.                                  *)
(***************************************************************************)
NameWords ==
  {"Helmet", "HELM", "helmsman", "cap", "Capybara", "Chestplate", "chest", "Leggings",
   "legs", "Leg", "legend", "PANTS", "Boots", "shoe", "Trinket"}
NameSeparators == {" ", "_", "-"}

\* one word, or two words with a separator between them
PieceNames ==
  {""} \cup NameWords \cup
  {w \o sep \o v : w \in NameWords, sep \in NameSeparators, v \in NameWords}

InitPiece ==
  /\ items = <<>>
  /\ imported = 0
  /\ canWrite = FALSE
  /\ cache = <<>>
  /\ now = StartTime
  /\ csv = 1
  /\ service = Answers({})
  /\ req \in {[endpoint |-> "detectPiece", name |-> n] : n \in PieceNames}
  /\ resp = NoResp
  /\ io = NoIo
  /\ calls = NoCalls
  /\ view = NoView
  /\ storage = NoStorage

CallDetectPiece ==
  /\ req.endpoint = "detectPiece"
  /\ resp = NoResp
  /\ Returns("set search", detectPiece(req.name))

NextPiece == CallDetectPiece

SpecPiece == InitPiece /\ [][NextPiece]_vars

(***************************************************************************)
(* The page, limit and tolerance each handler uses, as a function of the   *)
(* text of the three query parameters.                                     *)
(***************************************************************************)
\* absent, empty, not a number, zero, negative, in range, a number with a
\* tail, a number after a space, above every maximum
ParamTexts == {NULL, "", "abc", "0", "-3", "7", "12abc", " 5", "1000000"}

InitParams ==
  /\ items = <<>>
  /\ imported = 0
  /\ canWrite = FALSE
  /\ cache = <<>>
  /\ now = StartTime
  /\ csv = 1
  /\ service = Answers({})
  /\ req \in {[endpoint |-> "parameters", page |-> pg, limit |-> l, tolerance |-> tol] :
                pg \in ParamTexts, l \in ParamTexts, tol \in ParamTexts}
  /\ resp = NoResp
  /\ io = NoIo
  /\ calls = NoCalls
  /\ view = NoView
  /\ storage = NoStorage

\* the request of the handlers that read the parameters with a fallback
Parsed(r, endpoint) ==
  [endpoint |-> endpoint, q |-> "", color |-> "", uuid |-> "", uuids |-> "", piece |-> "all",
   tolerance |-> ParamOf(r.tolerance), limit |-> ParamOf(r.limit), page |-> ParamOf(r.page)]

ReadItemParams ==
  /\ req.endpoint = "parameters"
  /\ resp = NoResp
  /\ Returns("item search", ItemsPaging(ItemParams(Parsed(req, "search"))))

ReadSetParams ==
  /\ req.endpoint = "parameters"
  /\ resp = NoResp
  /\ Returns("set search", SetsPaging(SetParams(Parsed(req, "sets"))))

ReadExactSetParams ==
  /\ req.endpoint = "parameters"
  /\ resp = NoResp
  /\ Returns("set search without tolerance", ExactSetsPaging(SetParams(Parsed(req, "sets-exact"))))

ReadStubParams ==
  /\ req.endpoint = "parameters"
  /\ resp = NoResp
  /\ Returns("stored sets", StubPaging(req.page, req.limit, req.tolerance))

ReadOldParams ==
  /\ req.endpoint = "parameters"
  /\ resp = NoResp
  /\ Returns("legacy search", OldPaging(req.page, req.limit, req.tolerance))

NextParams ==
  ReadItemParams \/ ReadSetParams \/ ReadExactSetParams \/ ReadStubParams \/ ReadOldParams

SpecParams == InitParams /\ [][NextParams]_vars

NextSets == ImportFile \/ SetSearch \/ ExactSetSearch \/ Deliver

SpecSets == Init /\ [][NextSets]_vars

NextItems == ImportFile \/ ItemSearch \/ Deliver

SpecItems == Init /\ [][NextItems]_vars

NextOld == DeployDataset \/ OldSearch \/ Deliver

SpecOld == Init /\ [][NextOld]_vars

Next == ImportFile \/ DeployDataset \/ ItemSearch \/ SetSearch \/ ExactSetSearch \/ OldSearch \/ Deliver

Spec == Init /\ [][Next]_vars

\* the item search and the set search over the same table
NextSearch == ImportFile \/ ItemSearch \/ SetSearch \/ Deliver

SpecSearch == Init /\ [][NextSearch]_vars

(***************************************************************************)
(* Properties of set search.                                               *)
(***************************************************************************)
\* a set search of either revision has been answered with a result
SetsAnswered == req.endpoint \in {"sets", "sets-exact"} /\ resp.ok

\* a set search of the revision with tolerance has been answered
TolerantSetsAnswered == req.endpoint = "sets" /\ resp.ok

\* the query text contains "dragon" in any letter case
IsDragonQuery(q) == includes(toLowerCase(q), "dragon")

\* the slots a query requires, read off its text
SlotsRequired(q) ==
  IF IsDragonQuery(q) THEN {"chestplate", "leggings", "boots"}
  ELSE {"helmet", "chestplate", "leggings", "boots"}

\* the colour test a row has to pass for request r
ColourAdmits(row, r) ==
  LET hex == normalizeHex(trim(r.color))
      key == toUpperCase(SubSeq(hex, 2, Len(hex)))
      own == HexOfColor(row.color)
  IN  IF r.endpoint = "sets-exact" THEN SqlColorKey(row.color) = key
      ELSE IF r.tolerance.val = 0
           THEN SqlColorKey(row.color) = key /\ own # NULL /\ DistOf(own, hex) = 0
           ELSE own # NULL /\ DistOf(own, hex) <= r.tolerance.val

\* row can fill a slot of a set of request r
Qualifies(row, r) ==
  /\ OwnerOf(row.extra) # NULL
  /\ PieceOfName(row.name) # NULL
  /\ LowerLike(row.name, toLowerCase(SetLike(trim(r.q))))
  /\ ColourAdmits(row, r)

\* the owners, in lower case, of the rows that can fill a slot
CandidateOwners(r) ==
  {LowerOwner(OwnerOf(items[i].extra)) : i \in {j \in 1..Len(items) : Qualifies(items[j], r)}}

\* owner o has a row for slot k
HoldsSlot(o, k, r) ==
  \E i \in 1..Len(items) :
    /\ Qualifies(items[i], r)
    /\ LowerOwner(OwnerOf(items[i].extra)) = o
    /\ PieceOfName(items[i].name) = k

CompleteOwners(r) ==
  {o \in CandidateOwners(r) : \A k \in SlotsRequired(r.q) : HoldsSlot(o, k, r)}

\* C1: set search emits a set for an owner only if the owner's bucket holds
\* a piece in every required slot (three slots for a query containing
\* "dragon", four otherwise): every set on the page has all required slots
\* filled and belongs to an owner with a row for each of them, and total
\* counts exactly those owners, so no incomplete bucket is counted or shown.
C1_OnlyCompleteSets ==
  SetsAnswered =>
    /\ \A i \in 1..Len(resp.items) :
         /\ \A k \in SlotsRequired(req.q) : resp.items[i].pieces[k] # <<>>
         /\ LowerOwner(resp.items[i].ownerUuid) \in CompleteOwners(req)
    /\ resp.total = Cardinality(CompleteOwners(req))

\* a four-slot query is answered with a set while another owner's bucket is
\* incomplete
C1_Witness ==
  /\ SetsAnswered
  /\ ~IsDragonQuery(req.q)
  /\ Len(resp.items) >= 1
  /\ CandidateOwners(req) \ CompleteOwners(req) # {}

\* the label a set is ordered by among sets of equal exactness and average
OwnerLabel(g) == IF Truthy(g.ownerUsername) THEN g.ownerUsername ELSE g.ownerUuid

\* x may stand before y in the order of the claim: exact before inexact,
\* then smaller average distance, then the owner label in collation order
SetMayPrecede(x, y) ==
  \/ x.isExact /\ ~y.isExact
  \/ /\ x.isExact = y.isExact
     /\ x.sumDist * y.nDist < y.sumDist * x.nDist
  \/ /\ x.isExact = y.isExact
     /\ x.sumDist * y.nDist = y.sumDist * x.nDist
     /\ localeCompare(OwnerLabel(x), OwnerLabel(y)) <= 0

\* the full list of sets of the request being answered
FullSets == SetsRanked(items, canWrite, cache, now, req, service)

C9_DragonSetsHaveNoHelmet ==
  (SetsAnswered /\ IsDragonQuery(req.q)) =>
    \A i \in 1..Len(resp.items) :
      /\ resp.items[i].pieces.chestplate # <<>>
      /\ resp.items[i].pieces.leggings # <<>>
      /\ resp.items[i].pieces.boots # <<>>
      /\ resp.items[i].pieces.helmet = <<>>

\* C10: in every set of the response, isExact is true exactly when the
\* avgDist of the same record is 0.
C10_ExactIffZeroAverage ==
  TolerantSetsAnswered =>
    \A i \in 1..Len(resp.items) : resp.items[i].isExact <=> (resp.items[i].avgDist = 0)

(***************************************************************************)
(* Properties of item search.                                              *)
(***************************************************************************)
\* an item search has been answered with a result
ItemsAnswered == req.endpoint = "search" /\ resp.ok

\* the canonical target colour of the request being answered, or NULL
TargetHex == normalizeHex(trim(req.color))

\* the full list of rows of the item search being answered
FullItems == ItemsFull(items, ItemParams(req), TargetHex)

IdsOf(rows) == [i \in 1..Len(rows) |-> rows[i].id]

\* the request being answered filters by colour only
ColourOnly ==
  /\ trim(req.q) = "" /\ trim(req.uuid) = "" /\ trim(req.uuids) = ""
  /\ toLowerCase(req.piece) = "all"

\* C2: tolerance boundary of the colour filter: with tolerance T, a row
\* with a valid colour at nibble distance T from the target passes and a row
\* at distance T + 1 is rejected; with T = 0 only rows whose colour equals
\* the target pass.
C2_ToleranceBoundary ==
  (ItemsAnswered /\ TargetHex # NULL /\ ColourOnly) =>
    \A i \in 1..Len(items) :
      HexOfColor(items[i].color) # NULL =>
        /\ DistOf(HexOfColor(items[i].color), TargetHex) = resp.tolerance
             => items[i].id \in Range(IdsOf(FullItems))
        /\ DistOf(HexOfColor(items[i].color), TargetHex) = resp.tolerance + 1
             => items[i].id \notin Range(IdsOf(FullItems))
        /\ (resp.tolerance = 0 /\ items[i].id \in Range(IdsOf(FullItems)))
             => HexOfColor(items[i].color) = TargetHex

\* x may stand before y in the list of a request with tolerance tol: on the
\* in-memory path by distance and then by name in the order of
\* localeCompare, on the storage path by name in the order of ORDER BY name
ItemMayPrecede(x, y, tol) ==
  IF tol = 0 THEN ~NameLess(y.name, x.name)
  ELSE \/ DistOf(HexOfColor(x.color), TargetHex) < DistOf(HexOfColor(y.color), TargetHex)
       \/ /\ DistOf(HexOfColor(x.color), TargetHex) = DistOf(HexOfColor(y.color), TargetHex)
          /\ NameCompare(x.name, y.name) <= 0

\* C3: with a valid target colour the full list of an item search holds the
\* exact-colour rows first, by name ascending, then the near rows by nibble
\* distance ascending and by name ascending among equal distances, so that
\* no near row precedes an exact one; name ascending is the order of the
\* sort of the path taken (localeCompare in memory, ORDER BY name in
\* storage), and the page shows the rows in the order of the list.
C3_ItemRanking ==
  (ItemsAnswered /\ TargetHex # NULL) =>
    /\ \A i, j \in 1..Len(FullItems) :
         i < j => ItemMayPrecede(FullItems[i], FullItems[j], resp.tolerance)
    /\ resp.tolerance > 0 =>
         \A i, j \in 1..Len(FullItems) :
           (/\ HexOfColor(FullItems[i].color) # TargetHex
            /\ HexOfColor(FullItems[j].color) = TargetHex) => j < i
    /\ \A i \in 1..Len(resp.items) :
         resp.items[i].id = FullItems[(resp.page - 1) * resp.limit + i].id

\* the list holds two exact rows, two near rows at the same distance and a
\* near row farther away, and the page is not empty
C3_Witness ==
  /\ ItemsAnswered /\ TargetHex # NULL /\ resp.tolerance > 0
  /\ Len(resp.items) >= 1
  /\ \E i, j, k, l, m \in 1..Len(FullItems) :
       /\ i < j /\ j < k /\ k < l /\ l < m
       /\ HexOfColor(FullItems[j].color) = TargetHex
       /\ HexOfColor(FullItems[k].color) # TargetHex
       /\ HexOfColor(FullItems[k].color) = HexOfColor(FullItems[l].color)
       /\ HexOfColor(FullItems[l].color) # HexOfColor(FullItems[m].color)

\* the rows whose identifier is in the allowlist, by name ascending
Allowlisted ==
  SelectOrderByName(items,
    [i \in 1..Len(items) |->
       \E k \in 1..Len(UuidList(trim(req.uuids))) :
         items[i].uuid = UuidList(trim(req.uuids))[k]])

\* C7: with a non-empty allowlist in uuids, the full list of an item search
\* is exactly the rows whose identifier is in the allowlist, by name
\* ascending, whatever the other filter parameters of the request.
C7_AllowlistSoleFilter ==
  (ItemsAnswered /\ UuidList(trim(req.uuids)) # <<>>) =>
    /\ IdsOf(FullItems) = IdsOf(Allowlisted)
    /\ resp.total = Len(Allowlisted)

\* C8: with a valid target colour and tolerance 0, an item search selects
\* exactly the candidate rows whose canonical colour equals the canonical
\* target: the rows of the storage path are the rows of the exact partition
\* of the in-memory path.
C8_ToleranceZeroIsExactPartition ==
  (ItemsAnswered /\ TargetHex # NULL /\ resp.tolerance = 0) =>
    /\ Range(IdsOf(FullItems))
         = Range(IdsOf(ExactRows(BaseRows(items, ItemParams(req)), TargetHex)))
    /\ resp.total = Len(ExactRows(BaseRows(items, ItemParams(req)), TargetHex))

(***************************************************************************)
(* Properties of the responses of every search.                            *)
(***************************************************************************)
\* C6: in every search variant, totalPages of a response is ceil(total /
\* limit), which is 0 when total is 0, and total is the number of results
\* of the request, whatever the page.
C6_TotalPagesIsCeil ==
  resp.ok =>
    /\ resp.totalPages = Ceil(resp.total, resp.limit)
    /\ resp.total = 0 => resp.totalPages = 0
    /\ req.endpoint = "old" =>
         resp.total = Len(OldFiltered([i \in 1..Len(Datasets[csv].rows) |->
                                         mapRow(Datasets[csv].rows[i])], OldParams(req)))

(***************************************************************************)
(* Pagination.                                                             *)
(***************************************************************************)
\* the elements of list at the 0-based positions [(p - 1) * n, p * n)
PageOf(list, p, n) ==
  [i \in 1..Max(0, Min(Len(list), p * n) - (p - 1) * n) |-> list[(p - 1) * n + i]]

\* the identifiers on page k of the request being answered, the other
\* parameters unchanged
ItemPageIds(k) ==
  IdsOf(ItemsHandler(items, canWrite, cache, now, [req EXCEPT !.page = Num(k)], service).resp.items)

SetPageOwners(k) ==
  [i \in 1..Len(SetsHandler(items, canWrite, cache, now, [req EXCEPT !.page = Num(k)],
                            service).resp.items) |->
     SetsHandler(items, canWrite, cache, now, [req EXCEPT !.page = Num(k)],
                 service).resp.items[i].ownerUuid]

RECURSIVE Concat(_, _)
Concat(pageAt, n) == IF n = 0 THEN <<>> ELSE Concat(pageAt, n - 1) \o pageAt[n]

OwnersOf(sets) == [i \in 1..Len(sets) |-> sets[i].ownerUuid]

\* C5: the items of page p of size N of an item search (by the storage path
\* and by the in-memory path) and of a set search are the elements at the
\* 0-based positions [(p - 1) * N, p * N) of the full ranked list of the
\* request, in order; the page is empty when (p - 1) * N >= total; and
\* pages 1..totalPages concatenated are the full list.
C5_Pagination ==
  /\ ItemsAnswered =>
       /\ resp.total = Len(FullItems)
       /\ IdsOf(resp.items) = IdsOf(PageOf(FullItems, resp.page, resp.limit))
       /\ (resp.page - 1) * resp.limit >= resp.total => resp.items = <<>>
       /\ Concat([k \in 1..resp.totalPages |-> ItemPageIds(k)], resp.totalPages)
            = IdsOf(FullItems)
  /\ TolerantSetsAnswered =>
       /\ resp.total = Len(FullSets)
       /\ OwnersOf(resp.items) = OwnersOf(PageOf(FullSets, resp.page, resp.limit))
       /\ (resp.page - 1) * resp.limit >= resp.total => resp.items = <<>>
       /\ Concat([k \in 1..resp.totalPages |-> SetPageOwners(k)], resp.totalPages)
            = OwnersOf(FullSets)

\* a full second page of an item search with more rows after it
C5_Witness ==
  /\ ItemsAnswered
  /\ resp.page = 2 /\ resp.limit = 2
  /\ Len(resp.items) = 2
  /\ resp.total > 4

(***************************************************************************)
(* Properties of owner enrichment.                                         *)
(***************************************************************************)
\* an item search or a set search of either revision has been answered
SearchAnswered == ItemsAnswered \/ SetsAnswered

\* the distinct owners of the records of the page
PageOwners == {resp.items[i].ownerUuid : i \in 1..Len(resp.items)} \ {NULL}

\* the owners of the records of the page that carry a username
NamedOwners ==
  {resp.items[i].ownerUuid : i \in {j \in 1..Len(resp.items) : resp.items[j].ownerUsername # NULL}}

\* C11: a request of item search or set search issues at most 50 external
\* username lookups whatever the number of distinct owners of its results;
\* a record has a username only if its owner was looked up or served from
\* the cache, so at most 50 owners of a page carry one; the other records
\* keep a null username and stay in the result, and the response is ok.
C11_LookupCap ==
  SearchAnswered =>
    /\ Len(io.lookups) <= LookupCap
    /\ Cardinality(Range(io.lookups)) = Len(io.lookups)
    /\ Cardinality(NamedOwners) <= LookupCap
    /\ \A o \in NamedOwners : o \in Range(io.lookups) \/ FlatUuid(o) \in DOMAIN cache
    /\ resp.ok /\ resp.status = 200
    /\ ItemsAnswered => resp.total = Len(items)
    /\ SetsAnswered => resp.total = Cardinality({OwnerOf(items[i].extra) : i \in 1..Len(items)})
    /\ Len(resp.items) = Max(0, Min(resp.limit, resp.total - (resp.page - 1) * resp.limit))

\* a page with more than 50 distinct owners: 50 lookups were issued, the
\* owners beyond them have records with a null username on the page
C11_Witness ==
  /\ SearchAnswered
  /\ Cardinality(PageOwners) > LookupCap
  /\ Len(io.lookups) = LookupCap
  /\ Cardinality(NamedOwners) = LookupCap
  /\ \E i \in 1..Len(resp.items) : resp.items[i].ownerUsername = NULL

(***************************************************************************)
(* Failing lookups.                                                        *)
(***************************************************************************)
\* the lookups of the request being answered that failed
FailedOwners == {u \in DOMAIN service : service[u].status # "ok"}

\* the answer to the same request had no lookup failed
AnswerWithoutFailure ==
  IF req.endpoint = "sets" THEN SetsHandler(items, canWrite, cache, now, req, Answers({})).resp
  ELSE ExactSetsHandler(items, canWrite, cache, now, req, Answers({})).resp

\* a record of a page without its username
Unnamed(rec) == [rec EXCEPT !.ownerUsername = NULL]

\* C12: whichever lookups of a set search fail, each failed lookup leaves
\* null as the username of its own owner only, the other owners carry the
\* username they carry when no lookup fails, and the response is ok with the
\* same total, the same totalPages and the same records on the page, in the
\* same order, as when no lookup fails.
C12_FailuresKeepTheItems ==
  (SetsAnswered /\ ~canWrite) =>
    /\ resp.status = 200
    /\ resp.total = AnswerWithoutFailure.total
    /\ resp.totalPages = AnswerWithoutFailure.totalPages
    /\ Len(resp.items) = Len(AnswerWithoutFailure.items)
    /\ \A i \in 1..Len(resp.items) :
         /\ Unnamed(resp.items[i]) = Unnamed(AnswerWithoutFailure.items[i])
         /\ resp.items[i].ownerUsername =
              IF FlatUuid(resp.items[i].ownerUuid) \in FailedOwners THEN NULL
              ELSE AnswerWithoutFailure.items[i].ownerUsername

(***************************************************************************)
(* Fan-out and fan-in of the lookups.                                      *)
(***************************************************************************)
\* a request served one call at a time has its response
FanAnswered == req.endpoint \in {"sets", "search"} /\ resp # NoResp /\ resp.ok

\* the answer of the handler run in one step from the cache rows the calls
\* found, which does not depend on an order of completion
AnswerInOneStep ==
  IF req.endpoint = "sets" THEN SetsHandler(items, canWrite, calls.before, now, req, service)
  ELSE ItemsHandler(items, canWrite, calls.before, now, req, service)

\* C13: a request has its response only when every lookup it issued has
\* completed, none is awaited while a response exists, and for the lookup
\* results of the request the response (records, order, usernames, total)
\* and the cache rows are those of the handler run in one step, whatever
\* the order in which the lookups completed.
C13_FanInAfterAll ==
  /\ (resp # NoResp) => Awaited(calls) = {}
  /\ FanAnswered =>
       /\ Range(io.lookups) = Range(calls.settled)
       /\ Len(calls.settled) = Len(io.lookups)
       /\ resp = AnswerInOneStep.resp
       /\ cache = AnswerInOneStep.cache
       /\ io = AnswerInOneStep.io

\* a response after two lookups that completed in the reverse of the order
\* of issue, one of them failed
C13_Witness ==
  /\ FanAnswered
  /\ Len(io.lookups) >= 2
  /\ calls.settled[1] = io.lookups[Len(io.lookups)]
  /\ \E i \in 1..Len(resp.items) : resp.items[i].ownerUsername # NULL
  /\ \E u \in Range(io.lookups) : service[FlatUuid(u)].status # "ok"

(***************************************************************************)
(* The username cache.                                                     *)
(***************************************************************************)
\* the cache holds an entry of owner o fetched less than 24 hours before t
FreshAt(ch, o, t) ==
  FlatUuid(o) \in DOMAIN ch /\ t - ch[FlatUuid(o)].fetched_at < DAY_MS

\* a request is answered in this step, no lookup and no cache access of it
\* failing
AnsweredWithoutFailure ==
  /\ req = NoReq
  /\ req' # NoReq
  /\ resp'.ok
  /\ \A u \in DOMAIN service' : service'[u].status = "ok"

\* C14: in every deployment mode and after any sequence of requests, an
\* owner of the page whose cache entry was fetched less than 24 hours
\* before the request gets the cached username and no external lookup is
\* issued for it; for an owner whose entry is 24 hours old or older, or
\* absent, an external lookup is issued.
C14_CacheFreshness ==
  [][AnsweredWithoutFailure =>
       \A i \in 1..Len(resp'.items) :
         resp'.items[i].ownerUuid # NULL =>
           IF FreshAt(cache, resp'.items[i].ownerUuid, now)
           THEN /\ resp'.items[i].ownerUuid \notin Range(io'.lookups)
                /\ resp'.items[i].ownerUsername =
                     cache[FlatUuid(resp'.items[i].ownerUuid)].username
           ELSE resp'.items[i].ownerUuid \in Range(io'.lookups)]_vars

\* a request is answered in this step
Answered == req = NoReq /\ req' # NoReq /\ resp'.ok

\* the lookups of the request answered in this step that failed by a
\* network error or a non-success response
FailedLookups == {u \in Range(io'.lookups) : service'[FlatUuid(u)].status \in {"error", "throw"}}

\* the times of a later request
LaterTimes == {now + k * HalfDay : k \in 0..MaxTicks}

\* C15: a lookup that fails by a network error or a non-success response
\* leaves the cache row of its owner as it was, absent or with the username
\* and the time it had, and the next request that needs the owner, at any
\* later time and reading the cache, issues an external lookup for it.
C15_FailureNotCached ==
  [][Answered =>
       \A u \in FailedLookups :
         /\ (FlatUuid(u) \in DOMAIN cache') = (FlatUuid(u) \in DOMAIN cache)
         /\ FlatUuid(u) \in DOMAIN cache => cache'[FlatUuid(u)] = cache[FlatUuid(u)]
         /\ \A t \in LaterTimes, st \in [Failable -> LookupStatuses \ {"read error"}] :
              resolveUsername(u, canWrite, cache', t, AnswersWith(st)).lookup]_vars

\* in the writable deployment, a lookup for an owner whose cache row is a
\* day old or older has failed and the row is there as it was
C15_Witness ==
  /\ canWrite
  /\ resp.ok
  /\ \E u \in Range(io.lookups) :
       /\ service[FlatUuid(u)].status \in {"error", "throw"}
       /\ FlatUuid(u) \in DOMAIN cache
       /\ now - cache[FlatUuid(u)].fetched_at >= DAY_MS

(***************************************************************************)
(* The page and the lookups.                                               *)
(***************************************************************************)
\* C16: a search issues an external lookup only for owners of records of
\* the page it returns, and when the page has at most 50 distinct owners
\* each of them has been looked up or served from the cache.
C16_LookupsOnlyForThePage ==
  SearchAnswered =>
    /\ Range(io.lookups) \subseteq PageOwners
    /\ Cardinality(PageOwners) <= LookupCap =>
         \A o \in PageOwners : o \in Range(io.lookups) \/ FlatUuid(o) \in DOMAIN cache

(***************************************************************************)
(* Validation of the set search.                                           *)
(***************************************************************************)
\* text that is 3 or 6 hex digits after trimming and after one leading
\* marker
HexColourText(c) ==
  LET t == trim(c)
      d == IF Len(t) > 0 /\ Ch(t, 1) = "#" THEN SubSeq(t, 2, Len(t)) ELSE t
  IN  Len(d) \in {3, 6} /\ \A i \in 1..Len(d) : Ch(d, i) \in CharsOf(HexDigits \o "abcdef")

\* a set search is answered in this step whose color is not a hex colour
\* or whose q is empty after trimming
InvalidSetSearchAnswered ==
  /\ req = NoReq
  /\ req'.endpoint \in {"sets", "sets-exact"}
  /\ ~HexColourText(req'.color) \/ trim(req'.q) = ""

\* C17: a set search, of either revision that validates, whose color does
\* not normalize to a hex colour or whose q is empty after trimming is
\* answered { ok: false, error } with status 400, runs no SELECT on the
\* items table, issues no username lookup and leaves the cache as it was.
C17_InvalidSetSearchIs400 ==
  [][InvalidSetSearchAnswered =>
       /\ resp'.ok = FALSE
       /\ resp'.status = 400
       /\ DOMAIN resp' = {"ok", "status", "error"}
       /\ resp'.error # ""
       /\ io'.selects = 0
       /\ io'.lookups = <<>>
       /\ cache' = cache]_vars

\* a set search with a hex colour and an empty q refused in the writable
\* deployment, the table holding complete sets and the cache rows
C17_Witness ==
  /\ req.endpoint \in {"sets", "sets-exact"}
  /\ HexColourText(req.color)
  /\ trim(req.q) = ""
  /\ resp.status = 400
  /\ canWrite
  /\ Len(items) >= 6
  /\ cache # <<>>

(***************************************************************************)
(* The item search and a colour that is not one.                           *)
(***************************************************************************)
\* the answer to the request being answered had its color been omitted
AnswerWithoutColor ==
  ItemsHandler(items, canWrite, cache, now, [req EXCEPT !.color = ""], service).resp

\* C18: an item search whose color is not a hex colour is answered ok with
\* the records, their order, total and totalPages of the same request
\* without color, at tolerance 0 and at tolerance above 0, whatever the
\* table and the other parameters.
C18_InvalidColourIsNoFilter ==
  (ItemsAnswered /\ ~canWrite /\ ~HexColourText(req.color)) =>
    /\ resp.ok
    /\ resp.status = 200
    /\ resp.items = AnswerWithoutColor.items
    /\ resp.total = AnswerWithoutColor.total
    /\ resp.totalPages = AnswerWithoutColor.totalPages
    /\ resp.targetHex = NULL

\* an item search with the color zzz and no other filter has answered with
\* all the rows of a table that holds rows of several colours
C18_Witness ==
  /\ ItemsAnswered
  /\ req.color = "zzz"
  /\ req.q = "" /\ req.uuid = "" /\ req.uuids = "" /\ req.piece = "all"
  /\ resp.total = Len(items)
  /\ Cardinality({items[i].color : i \in 1..Len(items)}) >= 3
  /\ Len(resp.items) = 2

(***************************************************************************)
(* The extra column of a row and the outcome of a request.                 *)
(***************************************************************************)
\* the row of the table with the uuid of a record of the response
RowOf(uuid) == items[CHOOSE i \in 1..Len(items) : items[i].uuid = uuid]

\* an extra column without an owner that is a non-empty string
NoTextOwner(extra) == OwnerOf(extra) = NULL \/ OwnerNotText(extra)

\* a request of one of the three search handlers with a colour and, for the
\* set searches, a keyword, has been answered
ValidSearchAnswered ==
  /\ resp # NoResp
  /\ req.endpoint \in {"sets", "sets-exact", "search"}
  /\ HexColourText(req.color)
  /\ req.endpoint = "search" \/ trim(req.q) # ""

\* C19: whatever the extra column of the rows holds (text that does not
\* parse, or an object whose owner is missing, empty or not a string), a
\* valid request is answered ok with status 200, never 500; the set
\* searches use no such row as a piece, and the item search returns such a
\* row without an owner name.
C19_MalformedExtraNeverFails ==
  ValidSearchAnswered =>
    /\ resp.ok
    /\ resp.status = 200
    /\ req.endpoint \in {"sets", "sets-exact"} =>
         \A i \in 1..Len(resp.items) : \A k \in DOMAIN resp.items[i].pieces :
           \A j \in 1..Len(resp.items[i].pieces[k]) :
             ~NoTextOwner(RowOf(resp.items[i].pieces[k][j].uuid).extra)
    /\ req.endpoint = "search" =>
         \A i \in 1..Len(resp.items) :
           NoTextOwner(RowOf(resp.items[i].uuid).extra) => resp.items[i].ownerUsername = NULL

(***************************************************************************)
(* normalizeHex and the canonical form of a colour.                        *)
(***************************************************************************)
\* the argument after trimming and after one leading marker
HexBody(c) ==
  IF Len(trim(c)) > 0 /\ Ch(trim(c), 1) = "#" THEN SubSeq(trim(c), 2, Len(trim(c))) ELSE trim(c)

\* the marker and six upper-case hex digits, each digit of a 3-digit body
\* doubled
CanonicalColour(c) ==
  "#" \o toUpperCase(IF Len(HexBody(c)) = 3 THEN DoubleEach(HexBody(c)) ELSE HexBody(c))

\* C20: in every file that defines it, normalizeHex returns the canonical
\* colour of an argument that is 3 or 6 hex digits after trimming and after
\* one leading marker, and null for every other argument.
C20_NormalizeHexCanonical ==
  (req.endpoint = "normalizeHex" /\ resp # NoResp) =>
    resp.value = IF req.input # NULL /\ HexColourText(req.input)
                 THEN CanonicalColour(req.input)
                 ELSE NULL

(***************************************************************************)
(* The range of nibbleDistance.                                            *)
(***************************************************************************)
\* in each of the six positions one colour has the digit 0 and the other F
OpposedInEveryDigit(a, b) == \A i \in 2..7 : {Ch(a, i), Ch(b, i)} = {"0", "F"}

DistanceReturned == req.endpoint = "nibbleDistance" /\ resp # NoResp

\* C21: nibbleDistance of two canonical colours is an integer in 0..405, 0
\* exactly when the colours are equal, and 405 exactly when the colours are
\* opposed (0 against F) in each of the six digits.
C21_NibbleDistanceRange ==
  DistanceReturned =>
    /\ resp.value \in 0..MaxTolerance
    /\ resp.value = 0 <=> req.a = req.b
    /\ resp.value = MaxTolerance <=> OpposedInEveryDigit(req.a, req.b)

\* the largest distance is returned for a pair other than black and white
C21_Witness ==
  /\ DistanceReturned
  /\ req.a = "#0FF00F"
  /\ req.b = "#F00FF0"
  /\ resp.value = MaxTolerance

(***************************************************************************)
(* The priority of the piece classifier.                                   *)
(***************************************************************************)
PiecePriority == <<"helmet", "chestplate", "leggings", "boots">>

\* some pattern of the kind matches the name
KindMatches(kind, name) ==
  \E j \in 1..Len(PIECE_MATCHERS(name)[kind]) : PIECE_MATCHERS(name)[kind][j]

PieceReturned == req.endpoint = "detectPiece" /\ resp # NoResp

\* C22: detectPiece returns, for every name, the first kind in the order
\* helmet, chestplate, leggings, boots one of whose patterns matches the
\* name, and the no-match value when no pattern of any kind matches.
C22_PiecePriority ==
  PieceReturned =>
    IF \E k \in 1..4 : KindMatches(PiecePriority[k], req.name)
    THEN \E k \in 1..4 :
           /\ resp.value = PiecePriority[k]
           /\ KindMatches(PiecePriority[k], req.name)
           /\ \A e \in 1..(k - 1) : ~KindMatches(PiecePriority[e], req.name)
    ELSE resp.value = NULL

\* a name that matches a pattern of boots and a pattern of leggings is
\* classified as leggings
C22_Witness ==
  /\ PieceReturned
  /\ req.name = "Boots PANTS"
  /\ KindMatches("boots", req.name)
  /\ resp.value = "leggings"

(***************************************************************************)
(* The range of the page, the page size and the tolerance.                 *)
(***************************************************************************)
ParamsRead == req.endpoint = "parameters" /\ resp # NoResp

\* the largest page size of the endpoint
LargestPageSize ==
  [e \in {"item search", "legacy search"} |-> 200] @@
  [e \in {"set search", "set search without tolerance", "stored sets"} |-> 100]

\* C23: in every endpoint variant, whatever the text of the page and limit
\* parameters, the page used and echoed is an integer >= 1 and the page size
\* an integer between 1 and the maximum of the endpoint; in the item search
\* and the set search the tolerance is an integer in 0..405 whatever the
\* text of the tolerance parameter.
C23_ParametersSanitised ==
  ParamsRead =>
    /\ ~resp.value.page.nan
    /\ resp.value.page.val >= 1
    /\ ~resp.value.limit.nan
    /\ resp.value.limit.val \in 1..LargestPageSize[resp.definedIn]
    /\ resp.definedIn \in {"item search", "set search"} =>
         /\ ~resp.value.tolerance.nan
         /\ resp.value.tolerance.val \in 0..405

(***************************************************************************)
(* The colour filter of the legacy search.                                 *)
(***************************************************************************)
\* the sum of the absolute differences of the three 8-bit channels of two
\* colours written #rrggbb
Manhattan(a, b) ==
  LET byte(h, k) == 16 * (IndexIn(Ch(toUpperCase(h), 2 * k), HexDigits) - 1)
                      + (IndexIn(Ch(toUpperCase(h), 2 * k + 1), HexDigits) - 1)
      gap(k) == IF byte(a, k) >= byte(b, k) THEN byte(a, k) - byte(b, k)
                ELSE byte(b, k) - byte(a, k)
  IN  gap(1) + gap(2) + gap(3)

\* a legacy search with a target colour has been answered from a dataset
\* that is deployed
OldColourSearchAnswered ==
  /\ req.endpoint = "old"
  /\ resp # NoResp
  /\ Datasets[csv].found
  /\ oldNormalizeHex(req.color) # NULL

\* the identifiers of the rows of the dataset that match the text filter and
\* whose colour is within the tolerance of the target
OldExpected ==
  LET rows == Datasets[csv].rows
      q == toLowerCase(trim(req.q))
  IN  {mapRow(rows[i]).uuid : i \in
         {j \in 1..Len(rows) :
            /\ q # "" => OldTextHit(mapRow(rows[j]), q)
            /\ mapRow(rows[j]).color # NULL
            /\ Manhattan(mapRow(rows[j]).color, oldNormalizeHex(req.color))
                 <= req.tolerance.val}}

\* C24: for every dataset, rows with an owner included, a legacy search
\* with a valid target colour and tolerance T answers ok, and its results
\* are exactly the rows that match the text filter and whose colour is at
\* RGB Manhattan distance at most T from the target.
C24_LegacyManhattanFilter ==
  OldColourSearchAnswered =>
    /\ resp.ok
    /\ resp.total = Cardinality(OldExpected)
    /\ \A i \in 1..Len(resp.items) : resp.items[i].uuid \in OldExpected

(***************************************************************************)
(* The slots of a bucket of the set search.                                *)
(***************************************************************************)
\* the rows the query of the request being answered returned, in its order
QueryRows ==
  SetCandidates(items, normalizeHex(SetParams(req).color), SetParams(req).tolerance,
                SetLike(SetParams(req).qRaw))

\* for each row of the query its owner in lower case, its kind and its
\* distance to the target, and whether it is a candidate for a slot: it has
\* an owner, a kind and a colour within the tolerance
Candidates(rows, hex, tolerance) ==
  SubSeq([i \in 1..Len(rows) |->
            [owner |-> IF OwnerOf(rows[i].extra) = NULL THEN NULL
                       ELSE LowerOwner(OwnerOf(rows[i].extra)),
             kind |-> PieceOfName(rows[i].name),
             dist |-> IF HexOfColor(rows[i].color) = NULL THEN MissingDist
                      ELSE DistOf(HexOfColor(rows[i].color), hex),
             fits |-> /\ OwnerOf(rows[i].extra) # NULL
                      /\ PieceOfName(rows[i].name) # NULL
                      /\ HexOfColor(rows[i].color) # NULL
                      /\ IF tolerance = 0
                         THEN DistOf(HexOfColor(rows[i].color), hex) = 0
                         ELSE DistOf(HexOfColor(rows[i].color), hex) <= tolerance]],
         1, Len(rows))

\* the position of the first candidate for the slot kind of owner o, 0 when
\* the slot has none
FirstCandidate(cand, o, kind) ==
  LET at == {i \in 1..Len(cand) :
               cand[i].fits /\ cand[i].owner = LowerOwner(o) /\ cand[i].kind = kind}
  IN  IF at = {} THEN 0 ELSE CHOOSE i \in at : \A j \in at : i <= j

\* the buckets after each prefix of the rows, the empty prefix first
BucketsByPrefix(rows, hex, tolerance, setLabel) ==
  SubSeq([n \in 1..(Len(rows) + 1) |-> Bucketize(SubSeq(rows, 1, n - 1), hex, tolerance, setLabel)],
         1, Len(rows) + 1)

FirstWriterWins(rows, cand, after, out) ==
  /\ \A i \in 1..(Len(rows) - 1) : ~NameLess(rows[i + 1].name, rows[i].name)
  /\ \A b \in 1..Len(after[Len(rows) + 1]) : \A kind \in Range(PieceKinds) :
       LET g == after[Len(rows) + 1][b]
           first == FirstCandidate(cand, g.ownerUuid, kind)
       IN  IF first = 0
           THEN g.pieces[kind] = <<>> /\ g.pieceDist[kind] = <<>>
           ELSE g.pieces[kind] = <<rows[first]>> /\ g.pieceDist[kind] = <<cand[first].dist>>
  /\ \A n \in 1..Len(rows) : \A b \in 1..Len(after[n]) : \A kind \in Range(PieceKinds) :
       after[n][b].pieces[kind] # <<>> =>
         /\ after[n + 1][b].pieces[kind] = after[n][b].pieces[kind]
         /\ after[n + 1][b].pieceDist[kind] = after[n][b].pieceDist[kind]
  /\ \A i \in 1..Len(out) : \A kind \in Range(PieceKinds) :
       LET first == FirstCandidate(cand, out[i].ownerUuid, kind)
       IN  out[i].pieces[kind] =
             IF first = 0 THEN <<>>
             ELSE <<[uuid |-> rows[first].uuid, name |-> rows[first].name]>>

\* C25: in set search every slot of every bucket holds the first candidate
\* row of its owner and kind in the order of the query result, which is
\* ascending by name, with the distance of that row; a slot once filled is
\* the same after every later row, and the pieces of the response are the
\* pieces of the slots.
C25_FirstWriterWins ==
  TolerantSetsAnswered =>
    LET rows == QueryRows
        hex == normalizeHex(SetParams(req).color)
        tolerance == SetParams(req).tolerance
    IN  FirstWriterWins(rows, Candidates(rows, hex, tolerance),
                        BucketsByPrefix(rows, hex, tolerance, titleCase(SetParams(req).qRaw) \o " Set"),
                        resp.items)

\* a set is returned whose boots are the pair that comes first by name, one
\* step from the target, while the table holds boots of the same owner in
\* the target colour
C25_Witness ==
  /\ TolerantSetsAnswered
  /\ \E i \in 1..Len(resp.items) :
       /\ resp.items[i].ownerUuid = "a1"
       /\ resp.items[i].pieces["boots"] = <<[uuid |-> "i16", name |-> "Old Wise Dragon Boots"]>>
  /\ \E j \in 1..Len(items) : items[j].uuid = "i03" /\ items[j].color = "#aAaAaA"
  /\ normalizeHex(req.color) = "#AAAAAA"

(***************************************************************************)
(* The aggregate distances of the sets returned.                           *)
(***************************************************************************)
\* the slots a set of the request being answered must fill
RequiredSlotsOfRequest == RequiredKinds(requiresHelmet(SetParams(req).qRaw))

\* group g has a distance for each required slot, none of them the
\* placeholder; its largest distance is that of a required slot and within
\* the tolerance, and its sum is the sum over the required slots
AggregatesSound(g, tolerance, required) ==
  /\ \A i \in 1..Len(required) :
       /\ g.pieceDist[required[i]] # <<>>
       /\ g.pieceDist[required[i]][1] \in 0..tolerance
       /\ g.pieceDist[required[i]][1] <= g.maxDist
  /\ \E i \in 1..Len(required) : g.pieceDist[required[i]][1] = g.maxDist
  /\ g.maxDist <= tolerance
  /\ tolerance <= 405
  /\ g.nDist = Len(required)
  /\ g.sumDist = SumTo([i \in 1..Len(required) |-> g.pieceDist[required[i]][1]], Len(required))
  /\ g.sumDist <= g.nDist * g.maxDist
  /\ g.isExact <=> g.maxDist = 0

\* C26: every set the set search emits has a recorded distance for each
\* required slot, so the placeholder 9999 enters no aggregate: maxDist is at
\* most the tolerance applied (at most 405), avgDist is at most maxDist, and
\* both are taken over the required slots only.
C26_AggregatesOverRequiredSlots ==
  TolerantSetsAnswered =>
    LET completed == SetsCompleted(items, SetParams(req), normalizeHex(SetParams(req).color))
    IN  /\ \A i \in 1..Len(completed) :
             AggregatesSound(completed[i], SetParams(req).tolerance, RequiredSlotsOfRequest)
        /\ \A i \in 1..Len(resp.items) :
             /\ resp.items[i].avgDist <= SetParams(req).tolerance
             /\ \E j \in 1..Len(completed) :
                  /\ completed[j].ownerUuid = resp.items[i].ownerUuid
                  /\ resp.items[i].isExact = completed[j].isExact
                  /\ resp.items[i].avgDist <= completed[j].maxDist

\* a three-piece set is returned that is not exact, and its owner also has
\* a helmet in the table
C26_Witness ==
  /\ TolerantSetsAnswered
  /\ Len(RequiredSlotsOfRequest) = 3
  /\ \E i \in 1..Len(resp.items) :
       /\ ~resp.items[i].isExact
       /\ resp.items[i].pieces["helmet"] # <<>>

(***************************************************************************)
(* Exact sets and a wider tolerance.                                       *)
(***************************************************************************)
\* the sets the request being answered would have had at tolerance 0
CompletedAtZero ==
  SetsCompleted(items, [SetParams(req) EXCEPT !.tolerance = 0],
                normalizeHex(SetParams(req).color))

\* C27: every owner for whom the set search returns a set at tolerance 0
\* has, for the same table, colour and query at a tolerance above 0, a set
\* with isExact = true.
C27_ExactStaysExact ==
  (TolerantSetsAnswered /\ SetParams(req).tolerance > 0) =>
    LET wide == SetsCompleted(items, SetParams(req), normalizeHex(SetParams(req).color))
        zero == CompletedAtZero
    IN  \A i \in 1..Len(zero) :
          \E j \in 1..Len(wide) :
            /\ LowerOwner(wide[j].ownerUuid) = LowerOwner(zero[i].ownerUuid)
            /\ wide[j].isExact

(***************************************************************************)
(* The order of the sets and the outcomes of the lookups.                  *)
(***************************************************************************)
\* the owners of the full ranked list of the request being answered, in
\* order, when the lookups are answered by fetched
RankedOwners(fetched) ==
  LET ranked == SetsRanked(items, canWrite, cache, now, req, fetched)
  IN  [i \in 1..Len(ranked) |-> ranked[i].ownerUuid]

\* C28: for a fixed table and fixed parameters the order of the sets in the
\* full ranked list of the set search is the same whatever the outcomes of
\* the username lookups: the same when the lookups are answered as in the
\* request served, when all succeed and when those that may fail all fail.
C28_OrderIndependentOfLookups ==
  TolerantSetsAnswered =>
    /\ RankedOwners(service) = RankedOwners(Answers({}))
    /\ RankedOwners(Answers(Failable)) = RankedOwners(Answers({}))

(***************************************************************************)
(* The sets page (app/sets/page.tsx): its inputs, its paging state, its    *)
(* loading flag and the requests its effect has issued.                    *)
(***************************************************************************)
\* the most requests of the page awaited at once
MaxInFlight == 3

\* what is typed in the hex and set-name fields, the tolerance slider and
\* the page sizes of the select
HexEdits == {"", " ", "FF0000"}
NameEdits == {"", "wise"}
ToleranceEdits == {0, 5}
PageSizes == {12, 24, 48}

\* how a fetch ends: a body with ok and its totalPages, a body without ok,
\* or a rejected fetch
FetchOutcomes ==
  {[kind |-> "ok", totalPages |-> n] : n \in 0..2}
    \cup {[kind |-> "not ok", totalPages |-> 0], [kind |-> "thrown", totalPages |-> 0]}

\* the state of the page after it is mounted: flights holds, for each fetch
\* awaited, the cancelled flag of the effect run that issued it
SetsPageMounted ==
  [route |-> "sets", hex |-> "", q |-> "", tolerance |-> 0, exactGroup |-> FALSE,
   page |-> 1, limit |-> 24, totalPages |-> 0, loading |-> FALSE, err |-> FALSE,
   flights |-> <<>>]

\* the memoised url: a parameter left out is "" or 0 here
apiUrl(v) ==
  [page |-> v.page, limit |-> v.limit, color |-> trim(v.hex), q |-> trim(v.q),
   tolerance |-> IF v.tolerance > 0 THEN v.tolerance ELSE 0,
   exactGroup |-> v.exactGroup]

\* the cleanup of the previous run of the effect: cancelled = true
Cleanup(flights) ==
  SubSeq([i \in 1..Len(flights) |-> [flights[i] EXCEPT !.cancelled = TRUE]], 1, Len(flights))

\* a run of the effect on [apiUrl], after the cleanup of the previous run
RunEffect(v) ==
  IF trim(v.hex) = "" \/ trim(v.q) = ""
  THEN [v EXCEPT !.flights = Cleanup(v.flights), !.totalPages = 0, !.err = FALSE]
  ELSE [v EXCEPT !.flights = Append(Cleanup(v.flights), [cancelled |-> FALSE]),
                 !.loading = TRUE, !.err = FALSE]

\* the dependencies of the effect that resets the page
PageInputs(v) == <<v.hex, v.q, v.limit, v.tolerance, v.exactGroup>>

\* the effect on [apiUrl] runs when the url of the render differs
Rendered(old, new) == IF apiUrl(new) # apiUrl(old) THEN RunEffect(new) ELSE new

\* the effect setPage(1) runs when an input differs, and the render it
\* causes has another url
ResetPage(old, new, cur) ==
  IF PageInputs(new) # PageInputs(old) /\ cur.page # 1
  THEN RunEffect([cur EXCEPT !.page = 1])
  ELSE cur

\* the page after a state setter: the render, its effects and the render
\* the effects cause
Commit(old, new) == ResetPage(old, new, Rendered(old, new))

\* the page after the fetch of an effect run ends
Settled(v, cancelled, outcome) ==
  IF cancelled THEN v
  ELSE [v EXCEPT !.loading = FALSE,
                 !.err = IF outcome.kind = "ok" THEN @ ELSE TRUE,
                 !.totalPages = IF outcome.kind = "thrown" THEN @ ELSE outcome.totalPages]

\* the sequence without its element at i
Landed(flights, i) == SubSeq(flights, 1, i - 1) \o SubSeq(flights, i + 1, Len(flights))

InitLoading ==
  /\ items = <<>>
  /\ imported = 0
  /\ canWrite = FALSE
  /\ cache = <<>>
  /\ now = StartTime
  /\ csv = 1
  /\ service = Answers({})
  /\ req = NoReq
  /\ resp = NoResp
  /\ io = NoIo
  /\ calls = NoCalls
  /\ view = SetsPageMounted
  /\ storage = NoStorage

\* a state setter of the page and the commit that follows
SetState(new) ==
  /\ Len(Commit(view, new).flights) <= MaxInFlight
  /\ view' = Commit(view, new)
  /\ UNCHANGED <<storage, items, imported, canWrite, cache, now, csv, service, req, resp, io, calls>>

SetHex ==
  /\ view.route = "sets"
  /\ \E h \in HexEdits : SetState([view EXCEPT !.hex = h])

SetQ ==
  /\ view.route = "sets"
  /\ \E n \in NameEdits : SetState([view EXCEPT !.q = n])

SetTolerance ==
  /\ view.route = "sets"
  /\ \E t \in ToleranceEdits : SetState([view EXCEPT !.tolerance = t])

SetLimit ==
  /\ view.route = "sets"
  /\ \E l \in PageSizes : SetState([view EXCEPT !.limit = l])

SetExactGroup ==
  /\ view.route = "sets"
  /\ \E b \in BOOLEAN : SetState([view EXCEPT !.exactGroup = b])

ClickSearch ==
  /\ view.route = "sets"
  /\ SetState([view EXCEPT !.page = 1])

PrevPage ==
  /\ view.route = "sets"
  /\ view.totalPages > 1
  /\ view.page > 1
  /\ SetState([view EXCEPT !.page = Max(1, @ - 1)])

NextPage ==
  /\ view.route = "sets"
  /\ view.totalPages > 1
  /\ view.page < view.totalPages
  /\ SetState([view EXCEPT !.page = Min(view.totalPages, @ + 1)])

\* the fetch of one effect run ends
FetchSettles ==
  /\ view.route = "sets"
  /\ \E i \in 1..Len(view.flights), outcome \in FetchOutcomes :
       view' = Settled([view EXCEPT !.flights = Landed(view.flights, i)],
                       view.flights[i].cancelled, outcome)
  /\ UNCHANGED <<storage, items, imported, canWrite, cache, now, csv, service, req, resp, io, calls>>

NextLoading ==
  \/ SetHex \/ SetQ \/ SetTolerance \/ SetLimit \/ SetExactGroup
  \/ ClickSearch \/ PrevPage \/ NextPage \/ FetchSettles

SpecLoading == InitLoading /\ [][NextLoading]_vars

\* C29: on the sets page, once every request issued has ended, with a
\* response or with an error, the loading flag is false: the page never
\* shows the loading state with no request outstanding.
C29_LoadingOnlyWhileOutstanding ==
  (view.route = "sets" /\ view.flights = <<>>) => ~view.loading

(***************************************************************************)
(* Item favourites in localStorage: the home page (app/page.tsx) and the   *)
(* favourites page (app/favourites/page.tsx) keep a list of uuids under    *)
(* "gibbo-favs"; the home page that stores whole entries keeps them under  *)
(* "gibbo-fav-items", an entry being modelled by its uuid.                 *)
(***************************************************************************)
\* the pages (tabs) open on the same storage
MaxTabs == 2
Tabs == 1..MaxTabs

\* the items whose stars are clicked
FavUuids == {"a1", "b2"}

ClosedTab == [route |-> "closed", favs |-> <<>>, favSet |-> {}]

\* the browser before a page is opened; clicked is the item of the last star
\* or remove button clicked
BrowserOpened == [route |-> "tabs", clicked |-> NULL, tabs |-> [t \in Tabs |-> ClosedTab]]

\* prev.filter((u) => u !== uuid)
filterOut(list, uuid) == SelectSeq(list, LAMBDA u : u # uuid)

\* next of toggleFav, from the list in the state of the page
ToggledList(prev, uuid) ==
  IF uuid \in Range(prev) THEN filterOut(prev, uuid) ELSE Append(prev, uuid)

\* the stored list after upsertFavItem and removeFavItem, which load it first
upsertFavItem(list, uuid) == IF uuid \in Range(list) THEN list ELSE Append(list, uuid)
removeFavItem(list, uuid) == filterOut(list, uuid)

\* the set of the uuids of a list
UuidsOf(list) == Range(list)

InitFavs ==
  /\ items = <<>>
  /\ imported = 0
  /\ canWrite = FALSE
  /\ cache = <<>>
  /\ now = StartTime
  /\ csv = 1
  /\ service = Answers({})
  /\ req = NoReq
  /\ resp = NoResp
  /\ io = NoIo
  /\ calls = NoCalls
  /\ view = BrowserOpened
  /\ storage = NoStorage

\* the home page is opened in a tab: its effect on mount reads the list
OpenHome ==
  /\ view.route = "tabs"
  /\ \E t \in Tabs :
       /\ view.tabs[t].route = "closed"
       /\ view' = [view EXCEPT !.tabs[t] = [route |-> "home", favs |-> storage.favs, favSet |-> {}]]
  /\ UNCHANGED <<storage, items, imported, canWrite, cache, now, csv, service, req, resp, io, calls>>

\* the favourites page is opened in a tab
OpenFavourites ==
  /\ view.route = "tabs"
  /\ \E t \in Tabs :
       /\ view.tabs[t].route = "closed"
       /\ view' = [view EXCEPT !.tabs[t] = [route |-> "favourites", favs |-> storage.favs, favSet |-> {}]]
  /\ UNCHANGED <<storage, items, imported, canWrite, cache, now, csv, service, req, resp, io, calls>>

\* the home page that stores entries is opened in a tab
OpenEntriesHome ==
  /\ view.route = "tabs"
  /\ \E t \in Tabs :
       /\ view.tabs[t].route = "closed"
       /\ view' = [view EXCEPT !.tabs[t] = [route |-> "home, entries", favs |-> <<>>,
                                            favSet |-> UuidsOf(storage.favItems)]]
  /\ UNCHANGED <<storage, items, imported, canWrite, cache, now, csv, service, req, resp, io, calls>>

CloseTab ==
  /\ view.route = "tabs"
  /\ \E t \in Tabs :
       /\ view.tabs[t].route # "closed"
       /\ view' = [view EXCEPT !.tabs[t] = ClosedTab]
  /\ UNCHANGED <<storage, items, imported, canWrite, cache, now, csv, service, req, resp, io, calls>>

\* the star of an item is clicked on the home page
ToggleFav ==
  /\ view.route = "tabs"
  /\ \E t \in Tabs, uuid \in FavUuids :
       /\ view.tabs[t].route = "home"
       /\ view' = [view EXCEPT !.clicked = uuid, !.tabs[t].favs = ToggledList(@, uuid)]
       /\ storage' = [storage EXCEPT !.favs = ToggledList(view.tabs[t].favs, uuid)]
  /\ UNCHANGED <<items, imported, canWrite, cache, now, csv, service, req, resp, io, calls>>

\* an item shown on the favourites page is removed
RemoveFav ==
  /\ view.route = "tabs"
  /\ \E t \in Tabs, uuid \in FavUuids :
       /\ view.tabs[t].route = "favourites"
       /\ uuid \in Range(view.tabs[t].favs)
       /\ view' = [view EXCEPT !.clicked = uuid, !.tabs[t].favs = filterOut(@, uuid)]
       /\ storage' = [storage EXCEPT !.favs = filterOut(view.tabs[t].favs, uuid)]
  /\ UNCHANGED <<items, imported, canWrite, cache, now, csv, service, req, resp, io, calls>>

\* the star of an item is clicked on the home page that stores entries
ToggleFavEntry ==
  /\ view.route = "tabs"
  /\ \E t \in Tabs, uuid \in FavUuids :
       /\ view.tabs[t].route = "home, entries"
       /\ view' = [view EXCEPT !.clicked = uuid,
                               !.tabs[t].favSet = IF uuid \in @ THEN @ \ {uuid} ELSE @ \cup {uuid}]
       /\ storage' = [storage EXCEPT !.favItems = IF uuid \in view.tabs[t].favSet
                                                  THEN removeFavItem(@, uuid)
                                                  ELSE upsertFavItem(@, uuid)]
  /\ UNCHANGED <<items, imported, canWrite, cache, now, csv, service, req, resp, io, calls>>

NextFavs ==
  \/ OpenHome \/ OpenFavourites \/ OpenEntriesHome \/ CloseTab
  \/ ToggleFav \/ RemoveFav \/ ToggleFavEntry

SpecFavs == InitFavs /\ [][NextFavs]_vars

\* no uuid is twice in the list
NoRepeats(list) == \A i, j \in 1..Len(list) : list[i] = list[j] => i = j

\* C30: with two pages open on the same storage, a toggle of item y on one
\* page changes only y's membership in the stored favourites: every other
\* item is stored after the step exactly if it was stored before; and no
\* stored list holds the same uuid twice.
C30_ToggleChangesOnlyItsItem ==
  [][/\ \A x \in FavUuids \ {view'.clicked} :
          /\ (x \in Range(storage'.favs)) <=> (x \in Range(storage.favs))
          /\ (x \in Range(storage'.favItems)) <=> (x \in Range(storage.favItems))
     /\ NoRepeats(storage'.favs)
     /\ NoRepeats(storage'.favItems)]_vars

====
